---- MODULE Spec2Model ----
(***************************************************************************)
(* Route-O-Matic: the route builder (lib/algorithm/optimizer.ts), the      *)
(* feasibility pre-check (lib/algorithm/validator.ts), the conflict        *)
(* detector and smart buffer (lib/simulation/utils.ts) and the conflict    *)
(* resolution orchestrator (lib/simulation/scheduler.ts).                  *)
(*                                                                         *)
(* Conventions.  A time string "HH:MM" is the pair <<HH, MM>>; the null    *)
(* start time is NoTime.  Coordinates lie on one meridian and latitude is  *)
(* counted in whole kilometres of arc from the equator, so the great-      *)
(* circle distance of two points is the difference of their latitudes.     *)
(* Decimal factors are carried as exact scaled integers.                   *)
(***************************************************************************)
EXTENDS Integers, Sequences, FiniteSets, TLC

VARIABLES
  input,         \* geocodedAppointments handed to optimizeRoute
  pc,            \* position of the optimizeRoute call
  dates,         \* keys of byDate, in insertion order
  dateIdx,       \* index of the date being optimized (1-based)
  ordered,       \* orderedAppointments of the current optimizeDay call
  flexLeft,      \* flexible appointments of the day not yet inserted
  position,      \* loop variable of insertFlexibleAppointment
  bestPosition,  \* insertFlexibleAppointment: bestPosition
  bestCost,      \* insertFlexibleAppointment: bestCost
  allStops,      \* optimizeRoute: allStops
  totals,        \* optimizeRoute: totalDistance, totalDriveTime, totalVisitTime
  warnings,      \* optimizeRoute: warnings
  walkLog,       \* per stop of allStops, the outcome of its travel lookup
  failures,      \* lookups of this call that did not answer "ok"
  result,        \* the OptimizedRoute returned, NoResult before the return
  config,        \* BufferConfiguration of a simulation-utility call
  call,          \* the last call of a simulation utility and what it returned
  sim,           \* the runConflictSimulations call: its locals and position
  distanceCache, \* the Map of the distanceCache singleton: cache key -> result
  lookup         \* the last call of distance-matrix.ts: what it did and returned

routeVars == <<input, pc, dates, dateIdx, ordered, flexLeft, position,
               bestPosition, bestCost, allStops, totals, warnings, walkLog,
               failures, result>>

utilVars == <<config, call, sim, distanceCache, lookup>>

vars == <<routeVars, utilVars>>

-----------------------------------------------------------------------------
(* Bounds and input sets *)

MaxApts == 3

\* at most MaxFailures lookups of one optimizeRoute call fail
MaxFailures == 2

NoTime == <<>>
NoResult == [none |-> TRUE]

Dates == {1, 2}
Flexibilities == {"flexible", "inflexible"}

\* The i-th row of an input: its visit duration, its place on the meridian
\* and the start time it has when it has one.
DurationOfRow(i) == CASE i % 4 = 1 -> 30 [] i % 4 = 2 -> 45 [] i % 4 = 3 -> 60 [] OTHER -> 20
LatitudeOfRow(i) == CASE i % 4 = 1 -> 3 [] i % 4 = 2 -> 250 [] i % 4 = 3 -> 7 [] OTHER -> 19
StartTimeOfRow(i) ==
  CASE i % 4 = 1 -> <<9, 20>> [] i % 4 = 2 -> <<9, 0>> [] i % 4 = 3 -> <<10, 0>>
    [] OTHER -> <<9, 30>>

RowFields == [date : Dates, timed : BOOLEAN, flexibility : Flexibilities]

MkAppointment(i, f) ==
  [id |-> i, date |-> f.date,
   startTime |-> IF f.timed THEN StartTimeOfRow(i) ELSE NoTime,
   flexibility |-> f.flexibility,
   visitDurationMinutes |-> DurationOfRow(i),
   latitude |-> LatitudeOfRow(i), longitude |-> 151]

\* input is a list of at most maxLen appointments; dates are labels, so the
\* first row is on date 1
ListInit(maxLen) ==
  \E n \in 0..maxLen : \E f \in [1..n -> RowFields] :
    /\ n > 0 => f[1].date = 1
    /\ input = [i \in 1..n |-> MkAppointment(i, f[i])]

-----------------------------------------------------------------------------
(* lib/validators.ts *)

timeToMinutes(t) == t[1] * 60 + t[2]

\* a clock face that wraps at midnight
minutesToTimeWrapping(minutes) == <<(minutes \div 60) % 24, minutes % 60>>

minutesToTime(minutes) == <<minutes \div 60, minutes % 60>>

Abs(x) == IF x < 0 THEN -x ELSE x

timeDifference(time1, time2) == Abs(timeToMinutes(time1) - timeToMinutes(time2))

GRACE_PERIOD_MINUTES == 15

getArrivalStatus(arrivalTime, preferredTime, gracePeriod) ==
  IF timeDifference(arrivalTime, preferredTime) <= gracePeriod THEN "on_time"
  ELSE IF timeToMinutes(arrivalTime) < timeToMinutes(preferredTime) THEN "early"
  ELSE "late"

isInflexible(apt) == apt.flexibility = "inflexible"

\* Great-circle distance in km of two points of the meridian.
haversineDistance(lat1, lng1, lat2, lng2) == Abs(lat2 - lat1)

\* Math.round of the non-negative rational num/den.
RoundDiv(num, den) == (2 * num + den) \div (2 * den)

-----------------------------------------------------------------------------
(* Generic sequence helpers *)

RECURSIVE SelectSeq2(_, _)
\* indices (ascending) of the elements of s that satisfy the flag sequence
SelectSeq2(s, keep) ==
  IF s = <<>> THEN <<>>
  ELSE (IF Head(keep) THEN <<Head(s)>> ELSE <<>>) \o SelectSeq2(Tail(s), Tail(keep))

InflexibleOf(s) == SelectSeq2(s, [i \in 1..Len(s) |-> isInflexible(s[i])])
FlexibleOf(s) == SelectSeq2(s, [i \in 1..Len(s) |-> ~isInflexible(s[i])])

\* splice(pos, 1, x): the element at pos is overwritten
SpliceOver(s, pos, x) == SubSeq(s, 1, pos) \o <<x>> \o SubSeq(s, pos + 2, Len(s))

\* Array.prototype.splice(pos, 0, x) with a 0-based pos
SpliceIn(s, pos, x) == SubSeq(s, 1, pos) \o <<x>> \o SubSeq(s, pos + 1, Len(s))

RECURSIVE DateKeys(_)
\* keys of the Map built by the forEach grouping, in insertion order
DateKeys(s) ==
  IF s = <<>> THEN <<>>
  ELSE LET rest == DateKeys(SubSeq(s, 1, Len(s) - 1))
           d == s[Len(s)].date
       IN IF \E k \in 1..Len(rest) : rest[k] = d THEN rest ELSE Append(rest, d)

OnDate(s, d) == SelectSeq2(s, [i \in 1..Len(s) |-> s[i].date = d])

-----------------------------------------------------------------------------
(* Array.prototype.sort as Node's engine runs it on a short array: the     *)
(* initial run is counted (and reversed when strictly descending), the     *)
(* rest is placed by binary insertion.  With a consistent comparator this  *)
(* is a stable sort; the comparators below answer 0 for a missing start    *)
(* time, so the algorithm itself decides the order.                        *)

\* comparator(a, b) < 0, for the comparators of the sources
CompareNegative(cmp, a, b) ==
  CASE cmp = "anchors" ->
         \* optimizer.ts 94-97, validator.ts 103-106
         /\ a.startTime # NoTime
         /\ b.startTime # NoTime
         /\ timeToMinutes(a.startTime) - timeToMinutes(b.startTime) < 0
    [] cmp = "sortByStartTime" ->
         \* utils.ts sortByStartTime
         IF a.startTime = NoTime THEN FALSE
         ELSE IF b.startTime = NoTime THEN TRUE
         ELSE timeToMinutes(a.startTime) - timeToMinutes(b.startTime) < 0
    [] cmp = "impactScore" ->
         \* scoring.ts 101, reorderer.ts 108, buffer-variator.ts 60
         a.impactScore - b.impactScore < 0

RECURSIVE CountRun(_, _, _, _)
\* length of the initial run of a, idx being the next index to look at
CountRun(cmp, a, idx, descending) ==
  IF idx > Len(a) THEN idx - 1
  ELSE LET neg == CompareNegative(cmp, a[idx], a[idx - 1])
       IN IF descending = neg
          THEN CountRun(cmp, a, idx + 1, descending)
          ELSE idx - 1

Reverse(s) == [i \in 1..Len(s) |-> s[Len(s) + 1 - i]]

RECURSIVE BinarySearchPosition(_, _, _, _, _)
\* 0-based insertion point of pivot among a[left+1 .. right]
BinarySearchPosition(cmp, a, pivot, left, right) ==
  IF left >= right THEN left
  ELSE LET mid == left + ((right - left) \div 2)
       IN IF CompareNegative(cmp, pivot, a[mid + 1])
          THEN BinarySearchPosition(cmp, a, pivot, left, mid)
          ELSE BinarySearchPosition(cmp, a, pivot, mid + 1, right)

RECURSIVE BinaryInsertionSort(_, _, _)
\* a[1..start] is sorted; place a[start+1], a[start+2], ...
BinaryInsertionSort(cmp, a, start) ==
  IF start >= Len(a) THEN a
  ELSE LET pivot == a[start + 1]
           left == BinarySearchPosition(cmp, a, pivot, 0, start)
           b == SubSeq(a, 1, left) \o <<pivot>> \o SubSeq(a, left + 1, start)
                  \o SubSeq(a, start + 2, Len(a))
       IN BinaryInsertionSort(cmp, b, start + 1)

ArraySort(cmp, a) ==
  IF Len(a) < 2 THEN a
  ELSE LET descending == CompareNegative(cmp, a[2], a[1])
           run == CountRun(cmp, a, 3, descending)
           made == IF descending
                   THEN Reverse(SubSeq(a, 1, run)) \o SubSeq(a, run + 1, Len(a))
                   ELSE a
       IN BinaryInsertionSort(cmp, made, run)

SortedAnchors(day) == ArraySort("anchors", InflexibleOf(day))

-----------------------------------------------------------------------------
(* lib/algorithm/validator.ts *)

\* the two loops of checkScheduleFeasibility over one date's sorted anchors
TooCloseErrors(date, inflexible) ==
  SelectSeq2(
    [i \in 1..(Len(inflexible) - 1) |->
       [kind |-> "too_close", date |-> date,
        first |-> inflexible[i].id, second |-> inflexible[i + 1].id]],
    [i \in 1..(Len(inflexible) - 1) |->
       /\ inflexible[i].startTime # NoTime
       /\ inflexible[i + 1].startTime # NoTime
       /\ timeToMinutes(inflexible[i + 1].startTime)
            - timeToMinutes(inflexible[i].startTime)
          < inflexible[i].visitDurationMinutes])

UnreachableErrors(date, inflexible) ==
  SelectSeq2(
    [i \in 1..(Len(inflexible) - 1) |->
       [kind |-> "unreachable", date |-> date,
        first |-> inflexible[i].id, second |-> inflexible[i + 1].id]],
    [i \in 1..(Len(inflexible) - 1) |->
       /\ inflexible[i].startTime # NoTime
       /\ inflexible[i + 1].startTime # NoTime
       /\ haversineDistance(inflexible[i].latitude, inflexible[i].longitude,
                            inflexible[i + 1].latitude, inflexible[i + 1].longitude)
          > 200
       /\ timeToMinutes(inflexible[i + 1].startTime)
            - timeToMinutes(inflexible[i].startTime)
          < 120])

RECURSIVE FeasibilityErrorsFrom(_, _, _)
FeasibilityErrorsFrom(appointments, keys, k) ==
  IF k > Len(keys) THEN <<>>
  ELSE LET inflexible == SortedAnchors(OnDate(appointments, keys[k]))
       IN TooCloseErrors(keys[k], inflexible)
            \o UnreachableErrors(keys[k], inflexible)
            \o FeasibilityErrorsFrom(appointments, keys, k + 1)

checkScheduleFeasibility(appointments) ==
  FeasibilityErrorsFrom(appointments, DateKeys(appointments), 1)

\* the feasibility errors are not looked at
canOptimizeRouteUnchecked(appointments) ==
  IF Len(FlexibleOf(appointments)) = 0
  THEN [canOptimize |-> FALSE, reason |-> "all_inflexible"]
  ELSE [canOptimize |-> TRUE, reason |-> "scheduled"]

\* the share of inflexible appointments is tested first
canOptimizeRouteRatioFirst(appointments) ==
  LET total == Len(appointments)
      inflexible == Len(InflexibleOf(appointments))
      flexible == Len(FlexibleOf(appointments))
      feasibilityErrors == checkScheduleFeasibility(appointments)
  IN IF 10 * inflexible > 8 * total
     THEN [canOptimize |-> TRUE, reason |-> "limited"]
     ELSE IF flexible = 0
     THEN [canOptimize |-> FALSE, reason |-> "all_inflexible"]
     ELSE IF Len(feasibilityErrors) > 0
     THEN [canOptimize |-> FALSE, reason |-> "infeasible"]
     ELSE [canOptimize |-> TRUE, reason |-> "scheduled"]

canOptimizeRoute(appointments) ==
  LET total == Len(appointments)
      inflexible == Len(InflexibleOf(appointments))
      flexible == Len(FlexibleOf(appointments))
      feasibilityErrors == checkScheduleFeasibility(appointments)
  IN IF flexible = 0
     THEN [canOptimize |-> FALSE, reason |-> "all_inflexible"]
     ELSE IF 10 * inflexible > 8 * total      \* inflexible / total > 0.8
     THEN [canOptimize |-> TRUE, reason |-> "limited"]
     ELSE IF Len(feasibilityErrors) > 0
     THEN [canOptimize |-> FALSE, reason |-> "infeasible"]
     ELSE [canOptimize |-> TRUE, reason |-> "scheduled"]

-----------------------------------------------------------------------------
(* lib/google/distance-matrix.ts: one getDistanceMatrix(from, [to]) call.  *)
(* The call throws (no API key, HTTP or API status not OK, bad format),    *)
(* returns no element ("empty"), returns the element's distance and        *)
(* duration ("ok"), or the placeholder of an element whose status is not   *)
(* OK ("not_found").                                                       *)

LookupOutcomes == {"ok", "not_found", "empty", "throw"}

FailureCount(outcomes) == Cardinality({i \in DOMAIN outcomes : outcomes[i] # "ok"})

\* element.distance.value (metres) and element.duration.value (seconds) of
\* the service for a leg: a road 30% longer than the arc, driven at 40 km/h
ElementDistanceValue(from, to) ==
  1300 * haversineDistance(from.latitude, from.longitude, to.latitude, to.longitude)
ElementDurationValue(from, to) ==
  117 * haversineDistance(from.latitude, from.longitude, to.latitude, to.longitude)

\* the DistanceResult[] of a call that does not throw
getDistanceMatrix(from, to, outcome) ==
  CASE outcome = "ok" ->
         <<[distance |-> ElementDistanceValue(from, to),
            duration |-> RoundDiv(ElementDurationValue(from, to), 60)]>>
    [] outcome = "not_found" ->
         <<[distance |-> 999999, duration |-> 9999]>>
    [] OTHER -> <<>>

-----------------------------------------------------------------------------
(* lib/algorithm/optimizer.ts *)

Infinity == 1000000000

\* one iteration of the loop of calculateRouteCost: the cost of leg from->to
LegCost(from, to, outcome) ==
  IF outcome = "throw"
  THEN \* catch: fallback to geodesic distance
       haversineDistance(from.latitude, from.longitude, to.latitude, to.longitude) * 1000
  ELSE LET distance == getDistanceMatrix(from, to, outcome)
       IN IF Len(distance) > 0
          THEN distance[1].distance
          ELSE haversineDistance(from.latitude, from.longitude,
                                 to.latitude, to.longitude) * 1000

RECURSIVE SumLegCosts(_, _, _)
SumLegCosts(appointments, outcomes, i) ==
  IF i > Len(appointments) - 1 THEN 0
  ELSE LegCost(appointments[i], appointments[i + 1], outcomes[i])
         + SumLegCosts(appointments, outcomes, i + 1)

calculateRouteCost(appointments, outcomes) ==
  IF Len(appointments) <= 1 THEN 0 ELSE SumLegCosts(appointments, outcomes, 1)

\* travelTime and distance of a leg in calculateRoute (the lookup did not throw)
LegTravel(prevApt, currentApt, outcome) ==
  LET distanceResult == getDistanceMatrix(prevApt, currentApt, outcome)
      geodesicDist == haversineDistance(prevApt.latitude, prevApt.longitude,
                                        currentApt.latitude, currentApt.longitude)
  IN IF Len(distanceResult) > 0
     THEN [travelTime |-> distanceResult[1].duration,
           distance |-> distanceResult[1].distance]
     ELSE [travelTime |-> RoundDiv(geodesicDist * 12, 10),
           distance |-> geodesicDist * 1000]

FirstStop(firstApt, currentTime) ==
  [appointment |-> firstApt,
   order |-> 1,
   arrivalTime |-> minutesToTime(currentTime),
   travelTimeFromPrevious |-> 0,
   distanceFromPrevious |-> 0,
   status |-> getArrivalStatus(minutesToTime(currentTime),
                IF firstApt.startTime # NoTime THEN firstApt.startTime ELSE <<9, 0>>,
                GRACE_PERIOD_MINUTES),
   minutesFromPreferred |->
     IF firstApt.startTime # NoTime
     THEN Abs(timeToMinutes(minutesToTime(currentTime)) - timeToMinutes(firstApt.startTime))
     ELSE 0]

NextStop(currentApt, i, currentTime, travel) ==
  [appointment |-> currentApt,
   order |-> i,
   arrivalTime |-> minutesToTime(currentTime),
   travelTimeFromPrevious |-> travel.travelTime,
   distanceFromPrevious |-> travel.distance,
   status |-> getArrivalStatus(minutesToTime(currentTime),
                IF currentApt.startTime # NoTime THEN currentApt.startTime
                ELSE minutesToTime(currentTime),
                GRACE_PERIOD_MINUTES),
   minutesFromPreferred |->
     IF currentApt.startTime # NoTime
     THEN Abs(timeToMinutes(minutesToTime(currentTime)) - timeToMinutes(currentApt.startTime))
     ELSE 0]

RECURSIVE RemainingStops(_, _, _, _)
\* the loop of calculateRoute from 1-based stop i on; currentTime is the
\* arrival time at stop i-1
RemainingStops(orderedAppointments, outcomes, i, currentTime) ==
  IF i > Len(orderedAppointments) THEN <<>>
  ELSE LET prevApt == orderedAppointments[i - 1]
           currentApt == orderedAppointments[i]
           travel == LegTravel(prevApt, currentApt, outcomes[i - 1])
           now == currentTime + prevApt.visitDurationMinutes + travel.travelTime
       IN <<NextStop(currentApt, i, now, travel)>>
            \o RemainingStops(orderedAppointments, outcomes, i + 1, now)

\* stops of calculateRoute when no lookup throws
calculateRoute(orderedAppointments, outcomes) ==
  IF Len(orderedAppointments) = 0 THEN <<>>
  ELSE LET firstApt == orderedAppointments[1]
           currentTime == IF firstApt.startTime # NoTime /\ isInflexible(firstApt)
                          THEN timeToMinutes(firstApt.startTime)
                          ELSE 9 * 60
       IN <<FirstStop(firstApt, currentTime)>>
            \o RemainingStops(orderedAppointments, outcomes, 2, currentTime)

RECURSIVE SumOver(_, _)
SumOver(s, field) ==
  IF s = <<>> THEN 0 ELSE Head(s)[field] + SumOver(Tail(s), field)

RECURSIVE SumDurations(_)
SumDurations(stops) ==
  IF stops = <<>> THEN 0
  ELSE Head(stops).appointment.visitDurationMinutes + SumDurations(Tail(stops))

Max(a, b) == IF a > b THEN a ELSE b

FailedRoute(message) ==
  [stops |-> <<>>, totalDistance |-> 0, totalDriveTime |-> 0, totalVisitTime |-> 0,
   success |-> FALSE, error |-> message, warnings |-> <<>>]

\* the locals of optimizeRoute before its first statement
\* a day of anchors handed over out of time order with one flexible
\* appointment behind them: the rows of AnchorRows on date 1, the last one
\* flexible, each with or without a start time
AnchorRows == <<3, 2, 1, 4>>

AnchorDayInit ==
  \E timed \in [1..Len(AnchorRows) -> BOOLEAN] :
    input = [i \in 1..Len(AnchorRows) |->
               [MkAppointment(AnchorRows[i],
                              [date |-> 1, timed |-> timed[i],
                               flexibility |-> IF i = Len(AnchorRows) THEN "flexible"
                                               ELSE "inflexible"])
                  EXCEPT !.id = i]]

\* a day on which more than 80% of the appointments are inflexible: the
\* rows of LimitedRows on date 1, all with a start time, the last one
\* flexible or every one inflexible
LimitedRows == <<1, 2, 3, 4, 1, 2>>

LimitedDayInit ==
  \E last \in Flexibilities :
    input = [i \in 1..Len(LimitedRows) |->
               [MkAppointment(LimitedRows[i],
                              [date |-> 1, timed |-> TRUE,
                               flexibility |-> IF i = Len(LimitedRows) THEN last
                                               ELSE "inflexible"])
                  EXCEPT !.id = i]]

RouteLocalsInit ==
  /\ dates = <<>>
  /\ dateIdx = 0
  /\ ordered = <<>>
  /\ flexLeft = <<>>
  /\ position = 0
  /\ bestPosition = 0
  /\ bestCost = Infinity
  /\ allStops = <<>>
  /\ totals = [totalDistance |-> 0, totalDriveTime |-> 0, totalVisitTime |-> 0]
  /\ warnings = <<>>
  /\ walkLog = <<>>
  /\ failures = 0
  /\ result = NoResult

RouteInit ==
  /\ ListInit(MaxApts) \/ AnchorDayInit \/ LimitedDayInit
  /\ pc = "start"
  /\ RouteLocalsInit

\* optimizeRoute 17-27: the two throws before any work, caught at 66-76
OptimizeRouteReject ==
  /\ pc = "start"
  /\ Len(input) = 0 \/ ~canOptimizeRoute(input).canOptimize
  /\ result' = FailedRoute(IF Len(input) = 0 THEN "no_appointments"
                           ELSE canOptimizeRoute(input).reason)
  /\ pc' = "done"
  /\ UNCHANGED <<input, dates, dateIdx, ordered, flexLeft, position,
                 bestPosition, bestCost, allStops, totals, warnings, walkLog, failures, utilVars>>

\* optimizeRoute 29-45: group by date
OptimizeRouteGroup ==
  /\ pc = "start"
  /\ Len(input) # 0
  /\ canOptimizeRoute(input).canOptimize
  /\ dates' = DateKeys(input)
  /\ dateIdx' = 1
  /\ pc' = "day"
  /\ UNCHANGED <<input, ordered, flexLeft, position, bestPosition, bestCost,
                 allStops, totals, warnings, walkLog, result, failures, utilVars>>

\* optimizeDay 91-102: partition, sort the anchors, seed the order
OptimizeDayBegin ==
  /\ pc = "day"
  /\ dateIdx <= Len(dates)
  /\ LET appointments == OnDate(input, dates[dateIdx])
     IN /\ ordered' = SortedAnchors(appointments)
        /\ flexLeft' = FlexibleOf(appointments)
  /\ pc' = "insert"
  /\ UNCHANGED <<input, dates, dateIdx, position, bestPosition, bestCost,
                 allStops, totals, warnings, walkLog, result, failures, utilVars>>

\* insertFlexibleAppointment 139-146: push onto an empty order, or start the
\* search for the best position
InsertFlexibleBegin ==
  /\ pc = "insert"
  /\ flexLeft # <<>>
  /\ IF Len(ordered) = 0
     THEN /\ ordered' = Append(ordered, Head(flexLeft))
          /\ flexLeft' = Tail(flexLeft)
          /\ UNCHANGED <<pc, position, bestPosition, bestCost>>
     ELSE /\ bestPosition' = 0
          /\ bestCost' = Infinity
          /\ position' = 0
          /\ pc' = "trial"
          /\ UNCHANGED <<ordered, flexLeft>>
  /\ UNCHANGED <<input, dates, dateIdx, allStops, totals, warnings, walkLog, result, failures, utilVars>>

\* the result of one pass of the loop 149-160, for given lookup outcomes
TrialUpdate(outcomes) ==
  LET testOrder == SpliceIn(ordered, position, Head(flexLeft))
      cost == calculateRouteCost(testOrder, outcomes)
  IN IF cost < bestCost
     THEN [bestCost |-> cost, bestPosition |-> position]
     ELSE [bestCost |-> bestCost, bestPosition |-> bestPosition]

\* insertFlexibleAppointment 149-160: one candidate position
TryPosition ==
  /\ pc = "trial"
  /\ position <= Len(ordered)
  /\ \E outcomes \in [1..Len(ordered) -> LookupOutcomes] :
       /\ failures + FailureCount(outcomes) <= MaxFailures
       /\ failures' = failures + FailureCount(outcomes)
       /\ bestCost' = TrialUpdate(outcomes).bestCost
       /\ bestPosition' = TrialUpdate(outcomes).bestPosition
  /\ position' = position + 1
  /\ UNCHANGED <<input, pc, dates, dateIdx, ordered, flexLeft, allStops,
                 totals, warnings, walkLog, result, utilVars>>

\* insertFlexibleAppointment 163: insert at the best position
CommitPosition ==
  /\ pc = "trial"
  /\ position > Len(ordered)
  /\ ordered' = SpliceIn(ordered, bestPosition, Head(flexLeft))
  /\ flexLeft' = Tail(flexLeft)
  /\ pc' = "insert"
  /\ UNCHANGED <<input, dates, dateIdx, position, bestPosition, bestCost,
                 allStops, totals, warnings, walkLog, result, failures, utilVars>>

\* optimizeInflexiblePositions 172-179: the order is returned as it is
optimizeInflexiblePositions(currentOrder, inflexibleList) == currentOrder

\* optimizeDay 110-127 and optimizeRoute 50-54, when no lookup of
\* calculateRoute throws
DayRouteReturns ==
  /\ pc = "insert"
  /\ flexLeft = <<>>
  /\ \E outcomes \in [1..(Len(ordered) - 1) -> LookupOutcomes \ {"throw"}] :
       LET finalOptimized == optimizeInflexiblePositions(ordered, SortedAnchors(ordered))
           stops == calculateRoute(finalOptimized, outcomes)
           totalDistance == SumOver(stops, "distanceFromPrevious")
       IN /\ failures + FailureCount(outcomes) <= MaxFailures
          /\ failures' = failures + FailureCount(outcomes)
          /\ allStops' = allStops \o stops
          /\ totals' = [totalDistance |-> totals.totalDistance + totalDistance,
                        totalDriveTime |-> totals.totalDriveTime
                                            + SumOver(stops, "travelTimeFromPrevious"),
                        totalVisitTime |-> totals.totalVisitTime + SumDurations(stops)]
          /\ warnings' = IF totalDistance > 50000 * Max(Len(stops) - 1, 1)
                         THEN Append(warnings, "long_distances")
                         ELSE warnings
          /\ walkLog' = walkLog \o (<<"first">> \o outcomes)
  /\ dateIdx' = dateIdx + 1
  /\ pc' = "day"
  /\ UNCHANGED <<input, dates, ordered, flexLeft, position, bestPosition,
                 bestCost, result, utilVars>>

\* calculateRoute 278-281 has no try: a lookup that throws leaves optimizeDay
\* and is caught at optimizeRoute 66-76
DayRouteThrows ==
  /\ pc = "insert"
  /\ flexLeft = <<>>
  /\ Len(ordered) >= 2
  /\ failures < MaxFailures
  /\ failures' = failures + 1
  /\ result' = FailedRoute("lookup_error")
  /\ walkLog' = Append(walkLog, "throw")
  /\ pc' = "done"
  /\ UNCHANGED <<input, dates, dateIdx, ordered, flexLeft, position,
                 bestPosition, bestCost, allStops, totals, warnings, utilVars>>

\* optimizeRoute 57-65
OptimizeRouteReturn ==
  /\ pc = "day"
  /\ dateIdx > Len(dates)
  /\ result' = [stops |-> allStops,
                totalDistance |-> totals.totalDistance,
                totalDriveTime |-> totals.totalDriveTime,
                totalVisitTime |-> totals.totalVisitTime,
                success |-> TRUE, error |-> "none", warnings |-> warnings]
  /\ pc' = "done"
  /\ UNCHANGED <<input, dates, dateIdx, ordered, flexLeft, position,
                 bestPosition, bestCost, allStops, totals, warnings, walkLog, failures, utilVars>>

RouteNext ==
  \/ OptimizeRouteReject
  \/ OptimizeRouteGroup
  \/ OptimizeDayBegin
  \/ InsertFlexibleBegin
  \/ TryPosition
  \/ CommitPosition
  \/ DayRouteReturns
  \/ DayRouteThrows
  \/ OptimizeRouteReturn

-----------------------------------------------------------------------------
(* lib/simulation/utils.ts *)

\* DEFAULT_BUFFER_CONFIG; flexibleFactor 0.8 is carried in tenths
DEFAULT_BUFFER_CONFIG ==
  [baseBufferMinutes |-> 45, minimumBufferMinutes |-> 15,
   maximumBufferMinutes |-> 120, flexibleFactorTenths |-> 8]

Min(a, b) == IF a < b THEN a ELSE b

\* the buffer before the clamp of line 53, in hundredths of a minute
UnclampedBuffer100(apt1, apt2, cfg) ==
  LET base == cfg.baseBufferMinutes * 100
      flexed == IF ~isInflexible(apt1) /\ ~isInflexible(apt2)
                THEN (base * cfg.flexibleFactorTenths) \div 10
                ELSE base
      durationSum == apt1.visitDurationMinutes + apt2.visitDurationMinutes
      scaled == IF durationSum > 120 THEN (flexed * 12) \div 10   \* avgDuration > 60
                ELSE IF durationSum < 60 THEN (flexed * 9) \div 10 \* avgDuration < 30
                ELSE flexed
  IN IF apt1.latitude # 0 /\ apt1.longitude # 0 /\ apt2.latitude # 0 /\ apt2.longitude # 0
     THEN LET distance == haversineDistance(apt1.latitude, apt1.longitude,
                                            apt2.latitude, apt2.longitude)
          IN IF distance > 10 THEN scaled + 1500
             ELSE IF distance > 50 THEN scaled + 3000
             ELSE scaled
     ELSE scaled

\* the buffer is rounded as it comes out of the adjustments
calculateSmartBufferUnclamped(apt1, apt2, cfg) ==
  RoundDiv(UnclampedBuffer100(apt1, apt2, cfg), 100)

calculateSmartBuffer(apt1, apt2, cfg) ==
  RoundDiv(Max(cfg.minimumBufferMinutes * 100,
               Min(cfg.maximumBufferMinutes * 100, UnclampedBuffer100(apt1, apt2, cfg))),
           100)

NoConflict == [none |-> TRUE]

Severity(shortfall) ==
  IF shortfall > 30 THEN "critical" ELSE IF shortfall > 15 THEN "major" ELSE "minor"

\* the requirement is taken from the second appointment of the ordered pair
detectConflictBySecond(apt1, apt2) ==
  IF apt1.startTime = NoTime \/ apt2.startTime = NoTime THEN NoConflict
  ELSE LET time1 == timeToMinutes(apt1.startTime)
           time2 == timeToMinutes(apt2.startTime)
           first == IF time1 < time2 THEN apt1 ELSE apt2
           second == IF time1 < time2 THEN apt2 ELSE apt1
           gapMinutes == Abs(time2 - time1)
           requiredMinutes == second.visitDurationMinutes
       IN IF gapMinutes < requiredMinutes
          THEN [appointments |-> <<first, second>>, gapMinutes |-> gapMinutes,
                requiredMinutes |-> requiredMinutes,
                severity |-> Severity(requiredMinutes - gapMinutes)]
          ELSE NoConflict

\* the pair is taken in the order it is handed over, not in order of time
detectConflictUnordered(apt1, apt2) ==
  IF apt1.startTime = NoTime \/ apt2.startTime = NoTime THEN NoConflict
  ELSE LET gapMinutes == timeToMinutes(apt2.startTime) - timeToMinutes(apt1.startTime)
           requiredMinutes == apt1.visitDurationMinutes
       IN IF gapMinutes >= 0 /\ gapMinutes < requiredMinutes
          THEN [appointments |-> <<apt1, apt2>>, gapMinutes |-> gapMinutes,
                requiredMinutes |-> requiredMinutes,
                severity |-> Severity(requiredMinutes - gapMinutes)]
          ELSE NoConflict

detectConflict(apt1, apt2) ==
  IF apt1.startTime = NoTime \/ apt2.startTime = NoTime THEN NoConflict
  ELSE LET time1 == timeToMinutes(apt1.startTime)
           time2 == timeToMinutes(apt2.startTime)
           first == IF time1 < time2 THEN apt1 ELSE apt2
           second == IF time1 < time2 THEN apt2 ELSE apt1
           firstTime == IF time1 < time2 THEN time1 ELSE time2
           secondTime == IF time1 < time2 THEN time2 ELSE time1
           gapMinutes == secondTime - firstTime
           requiredMinutes == first.visitDurationMinutes
       IN IF gapMinutes < requiredMinutes
          THEN [appointments |-> <<first, second>>, gapMinutes |-> gapMinutes,
                requiredMinutes |-> requiredMinutes,
                severity |-> Severity(requiredMinutes - gapMinutes)]
          ELSE NoConflict

RECURSIVE PairsFrom(_, _, _)
\* the two loops of getAppointmentPairs from (i, j) on, 1-based
PairsFrom(appointments, i, j) ==
  IF i > Len(appointments) THEN <<>>
  ELSE IF j > Len(appointments) THEN PairsFrom(appointments, i + 1, i + 2)
  ELSE <<<<appointments[i], appointments[j]>>>> \o PairsFrom(appointments, i, j + 1)

\* only neighbours in the list are paired
getAppointmentPairsAdjacent(appointments) ==
  [i \in 1..(Len(appointments) - 1) |-> <<appointments[i], appointments[i + 1]>>]

getAppointmentPairs(appointments) == PairsFrom(appointments, 1, 2)

RECURSIVE ConflictsOfPairs(_)
\* the loop of findAllConflicts over the pairs
ConflictsOfPairs(pairs) ==
  IF pairs = <<>> THEN <<>>
  ELSE LET apt1 == Head(pairs)[1]
           apt2 == Head(pairs)[2]
       IN IF apt1.date # apt2.date THEN ConflictsOfPairs(Tail(pairs))
          ELSE LET conflict == detectConflict(apt1, apt2)
               IN (IF conflict # NoConflict THEN <<conflict>> ELSE <<>>)
                    \o ConflictsOfPairs(Tail(pairs))

findAllConflicts(appointments) == ConflictsOfPairs(getAppointmentPairs(appointments))

sortByStartTime(appointments) == ArraySort("sortByStartTime", appointments)

RemoveAt(arr, i) == SubSeq(arr, 1, i - 1) \o SubSeq(arr, i + 1, Len(arr))

RECURSIVE Flatten(_)
Flatten(lists) == IF lists = <<>> THEN <<>> ELSE Head(lists) \o Flatten(Tail(lists))

RECURSIVE permuteSkippingLast(_)
\* the outer loop stops one element short
permuteSkippingLast(arr) ==
  IF Len(arr) <= 1 THEN <<arr>>
  ELSE Flatten([i \in 1..(Len(arr) - 1) |->
         LET perms == permuteSkippingLast(RemoveAt(arr, i))
         IN [p \in 1..Len(perms) |-> <<arr[i]>> \o perms[p]]])

RECURSIVE permute(_)
permute(arr) ==
  IF Len(arr) <= 1 THEN <<arr>>
  ELSE Flatten([i \in 1..Len(arr) |->
         LET perms == permute(RemoveAt(arr, i))
         IN [p \in 1..Len(perms) |-> <<arr[i]>> \o perms[p]]])

\* the forEach of generateReorderings 205-211: flexIndex counts the flexible
\* appointments before position n
Interleave(appointments, flexiblePerm) ==
  [n \in 1..Len(appointments) |->
     IF isInflexible(appointments[n]) THEN appointments[n]
     ELSE flexiblePerm[Len(FlexibleOf(SubSeq(appointments, 1, n)))]]

generateReorderings(appointments) ==
  LET inflexible == InflexibleOf(appointments)
      flexible == FlexibleOf(appointments)
  IN IF Len(inflexible) = 0 \/ Len(flexible) = 0 THEN <<appointments>>
     ELSE LET permutations == permute(flexible)
          IN [p \in 1..Len(permutations) |-> Interleave(appointments, permutations[p])]

-----------------------------------------------------------------------------
(* lib/simulation/scoring.ts                                               *)
(*                                                                         *)
(* A success rate is the fraction <<numerator, denominator>>; an impact    *)
(* score is held in hundredths and a disruption score in tenths, which is  *)
(* the precision the code rounds them to.  The reasoning texts of a        *)
(* solution are not carried.                                               *)

RECURSIVE SumImpactMinutes(_, _)
\* changes.reduce((sum, change) => sum + change.impactMinutes, 0)
SumImpactMinutes(changes, k) ==
  IF k > Len(changes) THEN 0
  ELSE changes[k].impactMinutes + SumImpactMinutes(changes, k + 1)

\* calculateDisruptionScore 32-55, in tenths
calculateDisruptionScore(solution) ==
  IF Len(solution.changes) = 0 THEN 0
  ELSE LET totalImpact       == SumImpactMinutes(solution.changes, 1)
           maxPossibleImpact == Max(Len(solution.changes) * 480, 1)
       IN Min(1000, RoundDiv(totalImpact * 1000, maxPossibleImpact))

\* calculateBufferDeviationScore 61-85
calculateBufferDeviationScore(solution, cfg) ==
  LET bestGap   == solution.statistics.bestScenarioGapMinutes
      targetGap == cfg.baseBufferMinutes
  IN IF bestGap = 0 THEN 0
     ELSE IF bestGap <= targetGap THEN 0
     ELSE IF 2 * bestGap <= 3 * targetGap THEN 25
     ELSE IF bestGap <= 2 * targetGap THEN 60
     ELSE 100

\* calculateImpactScore 10-26, in hundredths:
\* disruption * 0.4 + (1 - successRate) * 100 * 0.3 + bufferDeviation * 0.3
calculateImpactScore(solution, cfg) ==
  LET num == solution.successRate[1]
      den == solution.successRate[2]
  IN RoundDiv(4 * calculateDisruptionScore(solution) * den
                + 3000 * (den - num)
                + 30 * calculateBufferDeviationScore(solution, cfg) * den,
              den)

\* the solutions paired with the score the sort compares
Scored(solutions) ==
  [k \in 1..Len(solutions) |->
     [solution    |-> solutions[k],
      impactScore |-> calculateImpactScore(solutions[k], DEFAULT_BUFFER_CONFIG)]]

\* rankSolutions 91-103 without the sort: the list comes back as it went in
rankSolutionsUnsorted(solutions) ==
  LET scored == Scored(solutions)
  IN [k \in 1..Len(scored) |-> scored[k].solution]

\* rankSolutions 91-103
rankSolutions(solutions) ==
  LET scored == ArraySort("impactScore", Scored(solutions))
  IN [k \in 1..Len(scored) |-> scored[k].solution]

\* no solution
Null == <<>>

\* selectBestSolution 109-120 answering the last of the ranking
selectBestSolutionLast(solutions) ==
  IF Len(solutions) = 0 THEN Null
  ELSE <<rankSolutions(solutions)[Len(solutions)]>>

\* selectBestSolution 109-120; a solution is answered as <<solution>>
selectBestSolution(solutions) ==
  IF Len(solutions) = 0 THEN Null
  ELSE <<rankSolutions(solutions)[1]>>

-----------------------------------------------------------------------------
(* lib/simulation/reorderer.ts *)

\* the statistics block of a solution; averageGapMinutes is a fraction
Statistics(total, feasible, best, worst, average, reorderings, buffers) ==
  [totalScenariosTested    |-> total,
   feasibleScenarios       |-> feasible,
   bestScenarioGapMinutes  |-> best,
   worstScenarioGapMinutes |-> worst,
   averageGapMinutes       |-> average,
   reorderingsTested       |-> reorderings,
   buffersTested           |-> buffers]

\* original.findIndex((a) => a.id === apt.id), counted from 0; -1 when absent
FindIndexById(original, id) ==
  IF \E k \in 1..Len(original) : original[k].id = id
  THEN (CHOOSE k \in 1..Len(original) :
          /\ original[k].id = id
          /\ \A j \in 1..(k - 1) : original[j].id # id) - 1
  ELSE -1

\* createReorderingSolution 114-161
createReorderingSolution(reordered, original, conflicts, scenariosTested, isFeasible) ==
  LET placed == [k \in 1..Len(reordered) |->
                   [index     |-> k - 1,
                    apt       |-> reordered[k],
                    origIndex |-> FindIndexById(original, reordered[k].id)]]
      moved  == SelectSeq2(placed, [k \in 1..Len(placed) |->
                                     placed[k].origIndex # placed[k].index])
  IN [changes     |-> [k \in 1..Len(moved) |->
                         [type          |-> "reorder",
                          appointmentId |-> moved[k].apt.id,
                          originalTime  |-> minutesToTime(moved[k].index * 30),
                          proposedTime  |-> minutesToTime(moved[k].index * 30),
                          impactMinutes |-> Abs(moved[k].index - moved[k].origIndex) * 30]],
      successRate |-> <<0, 1>>,
      impactScore |-> 0,
      feasibility |-> IF isFeasible THEN "feasible" ELSE "infeasible",
      statistics  |-> Statistics(0, 0, 0, 0, <<0, 1>>, 0, 0)]

RECURSIVE ReorderingLoop(_, _, _, _, _)
\* the for loop of simulateReordering 55-79 from index i on; acc carries the
\* solutions and the two counters, which are shared by all dates, and
\* acc.log the date and the feasibility of each solution pushed
ReorderingLoop(reorderings, dayAppointments, i, acc, maxReorderingScenarios) ==
  IF ~(i <= Len(reorderings) /\ acc.scenariosTested < maxReorderingScenarios)
  THEN acc
  ELSE LET conflicts       == findAllConflicts(reorderings[i])
           scenariosTested == acc.scenariosTested + 1
           isFeasible      == Len(conflicts) = 0
           solution        == createReorderingSolution(reorderings[i], dayAppointments,
                                                       conflicts, scenariosTested, isFeasible)
       IN ReorderingLoop(reorderings, dayAppointments, i + 1,
                         [acc EXCEPT !.scenariosTested  = scenariosTested,
                                     !.feasibleScenarios = IF isFeasible THEN @ + 1 ELSE @,
                                     !.solutions = Append(@, solution),
                                     !.log = Append(@, [date |-> dayAppointments[1].date,
                                                        feasibility |->
                                                          IF isFeasible THEN "feasible"
                                                          ELSE "infeasible"])],
                         maxReorderingScenarios)

RECURSIVE ReorderingDatesPerDate(_, _, _, _, _)
\* byDate.forEach with a counter that starts at 0 on every date
ReorderingDatesPerDate(appointments, keys, k, acc, maxReorderingScenarios) ==
  IF k > Len(keys) THEN acc
  ELSE LET dayAppointments == OnDate(appointments, keys[k])
           flexibleCount   == Len(FlexibleOf(dayAppointments))
       IN IF Len(dayAppointments) < 2 \/ flexibleCount = 0
          THEN ReorderingDatesPerDate(appointments, keys, k + 1, acc,
                                      maxReorderingScenarios)
          ELSE LET reorderings == generateReorderings(dayAppointments)
                   day == ReorderingLoop(reorderings, dayAppointments, 1,
                                         [acc EXCEPT !.generated = @ + Len(reorderings),
                                                     !.scenariosTested = 0],
                                         maxReorderingScenarios)
               IN ReorderingDatesPerDate(appointments, keys, k + 1,
                    [day EXCEPT !.scenariosTested = @ + acc.scenariosTested],
                    maxReorderingScenarios)

RECURSIVE ReorderingDates(_, _, _, _, _)
\* byDate.forEach of simulateReordering 42-80 from the k-th date on;
\* acc.generated counts the orderings generateReorderings has built
ReorderingDates(appointments, keys, k, acc, maxReorderingScenarios) ==
  IF k > Len(keys) THEN acc
  ELSE LET dayAppointments == OnDate(appointments, keys[k])
           flexibleCount   == Len(FlexibleOf(dayAppointments))
       IN IF Len(dayAppointments) < 2 \/ flexibleCount = 0
          THEN ReorderingDates(appointments, keys, k + 1, acc, maxReorderingScenarios)
          ELSE LET reorderings == generateReorderings(dayAppointments)
               IN ReorderingDates(appointments, keys, k + 1,
                    ReorderingLoop(reorderings, dayAppointments, 1,
                                   [acc EXCEPT !.generated = @ + Len(reorderings)],
                                   maxReorderingScenarios),
                    maxReorderingScenarios)

\* the best, worst and average gap over the solutions' own statistics,
\* 166-192: gaps of 0 are left out, no gap left gives 0
PositiveGaps(solutions, field) ==
  LET gaps == [k \in 1..Len(solutions) |-> solutions[k].statistics[field]]
  IN SelectSeq2(gaps, [k \in 1..Len(gaps) |-> gaps[k] > 0])

RECURSIVE MaxOf(_, _)
MaxOf(s, k) == IF k > Len(s) THEN 0 ELSE Max(s[k], MaxOf(s, k + 1))

RECURSIVE MinOf(_, _)
MinOf(s, k) == IF k = Len(s) THEN s[k] ELSE Min(s[k], MinOf(s, k + 1))

RECURSIVE SumOf(_, _)
SumOf(s, k) == IF k > Len(s) THEN 0 ELSE s[k] + SumOf(s, k + 1)

calculateBestGap(solutions) ==
  LET gaps == PositiveGaps(solutions, "bestScenarioGapMinutes")
  IN IF Len(gaps) > 0 THEN MaxOf(gaps, 1) ELSE 0

calculateWorstGap(solutions) ==
  LET gaps == PositiveGaps(solutions, "worstScenarioGapMinutes")
  IN IF Len(gaps) > 0 THEN MinOf(gaps, 1) ELSE 0

\* the average gaps the solutions carry here are whole (they are 0)
calculateAverageGap(solutions) ==
  LET all  == [k \in 1..Len(solutions) |->
                 solutions[k].statistics.averageGapMinutes[1]]
      gaps == SelectSeq2(all, [k \in 1..Len(all) |-> all[k] > 0])
  IN IF Len(gaps) > 0 THEN <<SumOf(gaps, 1), Len(gaps)>> ELSE <<0, 1>>

\* the map, sort and map that end simulateReordering 103-108 and
\* simulateBufferVariation 54-60
SortByImpactScore(solutions) ==
  LET scored == ArraySort("impactScore", Scored(solutions))
  IN [k \in 1..Len(scored) |-> scored[k].solution]

\* simulateReordering 23-109 with its counters: the solutions as returned,
\* scenariosTested, feasibleScenarios and the orderings generated on the way
simulateReorderingRun(appointments, maxReorderingScenarios) ==
  LET acc == ReorderingDates(appointments, DateKeys(appointments), 1,
                             [solutions |-> <<>>, scenariosTested |-> 0,
                              feasibleScenarios |-> 0, generated |-> 0,
                              log |-> <<>>],
                             maxReorderingScenarios)
      successRate == IF acc.scenariosTested > 0
                     THEN <<acc.feasibleScenarios, acc.scenariosTested>>
                     ELSE <<0, 1>>
      finalStats  == Statistics(acc.scenariosTested, acc.feasibleScenarios,
                                calculateBestGap(acc.solutions),
                                calculateWorstGap(acc.solutions),
                                calculateAverageGap(acc.solutions),
                                acc.scenariosTested, 0)
      updated     == [k \in 1..Len(acc.solutions) |->
                        [acc.solutions[k] EXCEPT !.successRate = successRate,
                                                 !.statistics  = finalStats]]
  IN [acc EXCEPT !.solutions = SortByImpactScore(updated)]

\* simulateReordering 23-109
simulateReordering(appointments, maxReorderingScenarios) ==
  simulateReorderingRun(appointments, maxReorderingScenarios).solutions

-----------------------------------------------------------------------------
(* lib/simulation/buffer-variator.ts *)

RECURSIVE ConsecutiveFeasible(_, _, _)
\* the inner loop of isScheduleFeasible 85-97 from index i on
ConsecutiveFeasible(sorted, i, cfg) ==
  IF i > Len(sorted) - 1 THEN TRUE
  ELSE LET conflict == detectConflict(sorted[i], sorted[i + 1])
       IN IF /\ conflict # NoConflict
             /\ conflict.gapMinutes < calculateSmartBuffer(sorted[i], sorted[i + 1], cfg)
          THEN FALSE
          ELSE ConsecutiveFeasible(sorted, i + 1, cfg)

\* isScheduleFeasible 66-102
isScheduleFeasible(appointments, cfg) ==
  LET keys == DateKeys(appointments)
  IN \A k \in 1..Len(keys) :
       ConsecutiveFeasible(sortByStartTime(OnDate(appointments, keys[k])), 1, cfg)

\* calculateSeverity 181-194; averageGap is a fraction
calculateSeverity(conflicts, cfg) ==
  IF Len(conflicts) = 0 THEN [worstGap |-> 0, averageGap |-> <<0, 1>>]
  ELSE LET gaps == [k \in 1..Len(conflicts) |-> conflicts[k].gapMinutes]
       IN [worstGap |-> MinOf(gaps, 1), averageGap |-> <<SumOf(gaps, 1), Len(gaps)>>]

\* calculateBufferImpactScore 200-207, in hundredths
calculateBufferImpactScore(bufferMinutes, cfg) ==
  LET deviation == Abs(bufferMinutes - cfg.baseBufferMinutes)
  IN Min(10000, 10 * RoundDiv(deviation * 500, cfg.baseBufferMinutes))

\* the remainder operator of the language: it has the sign of the dividend
Remainder(a, b) == IF a >= 0 THEN a % b ELSE -((-a) % b)

\* hours and minutes as the two simulators print them
FormatMinutes(newTimeMinutes) ==
  <<newTimeMinutes \div 60, Remainder(newTimeMinutes, 60)>>

\* calculateAdjustedTime 212-221
calculateAdjustedTime(apt, bufferMinutes) ==
  LET startMinutes == IF apt.startTime # NoTime THEN timeToMinutes(apt.startTime) ELSE 540
  IN FormatMinutes(startMinutes + apt.visitDurationMinutes + bufferMinutes)

\* calculateAdjustedTimeBackwards 226-237
calculateAdjustedTimeBackwards(aft, bufferMinutes) ==
  LET startMinutes == IF aft.startTime # NoTime THEN timeToMinutes(aft.startTime) ELSE 540
  IN FormatMinutes(startMinutes - aft.visitDurationMinutes - bufferMinutes)

RECURSIVE BufferChanges(_, _, _)
\* conflicts.forEach of createBufferSolution 120-147 from the k-th conflict on
BufferChanges(conflicts, k, cfg) ==
  IF k > Len(conflicts) THEN <<>>
  ELSE LET apt1        == conflicts[k].appointments[1]
           apt2        == conflicts[k].appointments[2]
           smartBuffer == calculateSmartBuffer(apt1, apt2, cfg)
           gapShortage == smartBuffer - conflicts[k].gapMinutes
           change      ==
             IF ~isInflexible(apt2)
             THEN <<[type          |-> "buffer-adjust",
                     appointmentId |-> apt2.id,
                     originalTime  |-> apt2.startTime,
                     proposedTime  |-> calculateAdjustedTime(apt1, smartBuffer),
                     impactMinutes |-> gapShortage]>>
             ELSE IF ~isInflexible(apt1)
             THEN <<[type          |-> "buffer-adjust",
                     appointmentId |-> apt1.id,
                     originalTime  |-> apt1.startTime,
                     proposedTime  |-> calculateAdjustedTimeBackwards(apt2, smartBuffer),
                     impactMinutes |-> gapShortage]>>
             ELSE <<>>
       IN change \o BufferChanges(conflicts, k + 1, cfg)

\* createBufferSolution 107-176
createBufferSolution(appointments, bufferMinutes, cfg, isFeasible, buffersTested) ==
  LET conflicts     == findAllConflicts(appointments)
      severity      == calculateSeverity(conflicts, cfg)
      feasibleCount == IF isFeasible THEN 1 ELSE 0
  IN [changes     |-> BufferChanges(conflicts, 1, cfg),
      successRate |-> IF buffersTested > 0 THEN <<feasibleCount, buffersTested>> ELSE <<0, 1>>,
      impactScore |-> calculateBufferImpactScore(bufferMinutes, cfg),
      feasibility |-> IF isFeasible THEN "feasible" ELSE "infeasible",
      statistics  |-> Statistics(buffersTested, feasibleCount, bufferMinutes,
                                 severity.worstGap, severity.averageGap, 0, buffersTested)]

\* simulateBufferVariation 23-61
simulateBufferVariation(appointments, buffersToTest, baseConfig) ==
  SortByImpactScore(
    [k \in 1..Len(buffersToTest) |->
       LET testConfig == [baseConfig EXCEPT !.baseBufferMinutes = buffersToTest[k]]
       IN createBufferSolution(appointments, buffersToTest[k], testConfig,
                               isScheduleFeasible(appointments, testConfig),
                               Len(buffersToTest))])

-----------------------------------------------------------------------------
(* lib/simulation/scheduler.ts *)

\* an option that is passed as undefined
Undefined == <<>>

\* Date.now() - startTime > opts.timeLimitMs; a comparison with undefined is false
TimeLimitExceeded(elapsed, timeLimitMs) ==
  timeLimitMs # Undefined /\ elapsed > timeLimitMs[1]

\* createRescheduleSolution 435-512; null is Null, a solution is <<solution>>
createRescheduleSolution(appointmentToMove, anchorAppointment, type, cfg) ==
  IF appointmentToMove.startTime = NoTime \/ anchorAppointment.startTime = NoTime
  THEN Null
  ELSE LET anchorEndTime == appointmentToMove.startTime
           buffer        == calculateSmartBuffer(anchorAppointment, appointmentToMove, cfg)
       IN IF type = "later"
          THEN <<[changes     |-> <<[type          |-> "reschedule",
                                     appointmentId |-> appointmentToMove.id,
                                     originalTime  |-> appointmentToMove.startTime,
                                     proposedTime  |-> anchorEndTime,
                                     impactMinutes |-> buffer]>>,
                  successRate |-> <<4, 5>>,
                  impactScore |-> 4000,
                  feasibility |-> "feasible",
                  statistics  |-> Statistics(1, 1, buffer, 0, <<buffer, 2>>, 0, 0)]>>
          ELSE <<[changes     |-> <<[type          |-> "reschedule",
                                     appointmentId |-> appointmentToMove.id,
                                     originalTime  |-> appointmentToMove.startTime,
                                     proposedTime  |-> <<9, 0>>,
                                     impactMinutes |-> 480]>>,
                  successRate |-> <<1, 1>>,
                  impactScore |-> 6000,
                  feasibility |-> "feasible",
                  statistics  |-> Statistics(1, 1, 60, 60, <<60, 1>>, 0, 0)]>>

\* simulateRescheduling 386-430
simulateRescheduling(conflict, allAppointments, cfg) ==
  LET apt1 == conflict.appointments[1]
      apt2 == conflict.appointments[2]
  IN createRescheduleSolution(apt2, apt1, "later", cfg)
       \o createRescheduleSolution(apt2, apt1, "different-day", cfg)
       \o (IF apt1.startTime = NoTime /\ apt2.startTime = NoTime
           THEN <<[changes     |-> <<>>,
                   successRate |-> <<1, 1>>,
                   impactScore |-> 1000,
                   feasibility |-> "feasible",
                   statistics  |-> Statistics(1, 1, 60, 60, <<60, 1>>, 0, 0)]>>
           ELSE <<>>)

\* the solutions resolveConflict 342-364 collects before it ranks them; the
\* simulators named in caught have thrown and contribute nothing
CollectSolutions(conflict, allAppointments, options, caught) ==
  (IF "reordering" \in caught THEN <<>>
   ELSE simulateReordering(allAppointments, options.maxReorderings))
  \o (IF "buffer" \in caught THEN <<>>
      ELSE simulateBufferVariation(allAppointments, options.testBufferSizes, options.config))
  \o (IF options.runRescheduling
      THEN simulateRescheduling(conflict, allAppointments, options.config)
      ELSE <<>>)

\* resolveConflict 337-381
resolveConflict(conflict, allAppointments, options, caught) ==
  LET explainedSolutions == CollectSolutions(conflict, allAppointments, options, caught)
  IN [conflict            |-> conflict,
      solutions           |-> rankSolutions(explainedSolutions),
      recommendedSolution |-> selectBestSolution(explainedSolutions)]

\* the body of the for loop is run although the limit is exceeded
LoopStepNoBreak(s, t, caught) ==
  [s EXCEPT !.now = t,
            !.checks = Append(@, t - s.startTime),
            !.warned = @ \/ TimeLimitExceeded(t - s.startTime, s.opts.timeLimitMs),
            !.errors = @ + Cardinality(caught),
            !.merged = Append(@, CollectSolutions(s.conflicts[s.next], s.appointments,
                                                  s.opts, caught)),
            !.resolutions = Append(@, resolveConflict(s.conflicts[s.next], s.appointments,
                                                      s.opts, caught)),
            !.next = @ + 1]

\* one pass of the for loop of runConflictSimulations 320-329: Date.now()
\* answers t, the guarded simulators of resolveConflict named in caught throw;
\* merged keeps the list resolveConflict hands to rankSolutions
LoopStep(s, t, caught) ==
  IF TimeLimitExceeded(t - s.startTime, s.opts.timeLimitMs)
  THEN [s EXCEPT !.now = t,
                 !.checks = Append(@, t - s.startTime),
                 !.warned = TRUE,
                 !.pc = "break"]
  ELSE [s EXCEPT !.now = t,
                 !.checks = Append(@, t - s.startTime),
                 !.errors = @ + Cardinality(caught),
                 !.merged = Append(@, CollectSolutions(s.conflicts[s.next], s.appointments,
                                                       s.opts, caught)),
                 !.resolutions = Append(@, resolveConflict(s.conflicts[s.next], s.appointments,
                                                           s.opts, caught)),
                 !.next = @ + 1]

NoSim == [pc |-> "idle"]

\* milliseconds the clock can show
MaxClock == 3

\* opts.timeLimitMs after the merge with the defaults
TimeLimits == {Undefined, <<0>>, <<1>>, <<2>>}

\* runConflictSimulations 307-317
SimStart ==
  /\ sim.pc = "start"
  /\ LET conflicts == findAllConflicts(input)
     IN sim' = [sim EXCEPT !.startTime = sim.now,
                           !.conflicts = conflicts,
                           !.pc = IF Len(conflicts) = 0 THEN "returned" ELSE "loop"]
  /\ UNCHANGED <<routeVars, config, call, distanceCache, lookup>>

\* runConflictSimulations 320-329
SimIterate ==
  /\ sim.pc = "loop"
  /\ sim.next <= Len(sim.conflicts)
  /\ \E t \in sim.now..MaxClock :
       sim' = LoopStep(sim, t, sim.throwing)
  /\ UNCHANGED <<routeVars, config, call, distanceCache, lookup>>

\* runConflictSimulations 331
SimReturn ==
  /\ \/ sim.pc = "break"
     \/ sim.pc = "loop" /\ sim.next > Len(sim.conflicts)
  /\ sim' = [sim EXCEPT !.pc = "returned"]
  /\ UNCHANGED <<routeVars, config, call, distanceCache, lookup>>

-----------------------------------------------------------------------------
NoCall == [fn |-> "none"]

\* distance-matrix.ts has not been called
NoLookup == [fn |-> "none"]
NoConfig == [none |-> TRUE]

\* optimizeRoute on every input of at most MaxApts appointments
Init ==
  /\ RouteInit
  /\ config = NoConfig
  /\ call = NoCall
  /\ sim = NoSim
  /\ distanceCache = <<>>
  /\ lookup = NoLookup

Next == RouteNext

Spec == Init /\ [][Next]_vars

-----------------------------------------------------------------------------
(* The simulation utilities called on their own *)

MaxList == 4

PairTimes ==
  {NoTime, <<9, 0>>, <<9, 14>>, <<9, 15>>, <<9, 20>>, <<9, 29>>, <<9, 30>>,
   <<9, 44>>, <<9, 45>>}
PairDurations == {20, 30, 45, 90}
PairLatitudes == {0, 3, 9, 250}

\* pairs that differ in start time and duration
ConflictPairs ==
  { <<[id |-> 1, date |-> 1, startTime |-> a.startTime, flexibility |-> "inflexible",
       visitDurationMinutes |-> a.visitDurationMinutes, latitude |-> 3, longitude |-> 151],
      [id |-> 2, date |-> 1, startTime |-> b.startTime, flexibility |-> "inflexible",
       visitDurationMinutes |-> b.visitDurationMinutes, latitude |-> 9, longitude |-> 151]>> :
      a, b \in [startTime : PairTimes, visitDurationMinutes : PairDurations] }

\* pairs that differ in flexibility, duration and place
BufferPairs ==
  { <<[id |-> 1, date |-> 1, startTime |-> <<9, 0>>, flexibility |-> a.flexibility,
       visitDurationMinutes |-> a.visitDurationMinutes, latitude |-> a.latitude,
       longitude |-> 151],
      [id |-> 2, date |-> 1, startTime |-> <<10, 0>>, flexibility |-> b.flexibility,
       visitDurationMinutes |-> b.visitDurationMinutes, latitude |-> b.latitude,
       longitude |-> 151]>> :
      a, b \in [flexibility : Flexibilities, visitDurationMinutes : PairDurations,
                latitude : PairLatitudes] }

\* configurations with integer minimumBufferMinutes <= maximumBufferMinutes
Configs ==
  { [baseBufferMinutes |-> base, minimumBufferMinutes |-> range[1],
     maximumBufferMinutes |-> range[2], flexibleFactorTenths |-> factor] :
      base \in {10, 45, 200},
      range \in {<<15, 120>>, <<30, 30>>, <<0, 50>>, <<60, 90>>},
      factor \in {5, 8, 12} }

RouteIdle == pc = "idle" /\ RouteLocalsInit

InitUtils ==
  /\ RouteIdle
  /\ sim = NoSim
  /\ call = NoCall
  /\ distanceCache = <<>>
  /\ lookup = NoLookup
  /\ \/ (input \in ConflictPairs \/ ListInit(MaxList)) /\ config = DEFAULT_BUFFER_CONFIG
     \/ input \in BufferPairs /\ config \in Configs

CallDetectConflict ==
  /\ Len(input) = 2
  /\ \E i, j \in 1..2 :
       /\ i # j
       /\ call' = [fn |-> "detectConflict", args |-> <<input[i], input[j]>>,
                   ret |-> detectConflict(input[i], input[j])]
  /\ UNCHANGED <<routeVars, config, sim, distanceCache, lookup>>

CallCalculateSmartBuffer ==
  /\ Len(input) = 2
  /\ \E i, j \in 1..2 :
       /\ i # j
       /\ call' = [fn |-> "calculateSmartBuffer", args |-> <<input[i], input[j]>>,
                   ret |-> calculateSmartBuffer(input[i], input[j], config)]
  /\ UNCHANGED <<routeVars, config, sim, distanceCache, lookup>>

CallFindAllConflicts ==
  /\ call' = [fn |-> "findAllConflicts", args |-> <<input>>,
              ret |-> findAllConflicts(input)]
  /\ UNCHANGED <<routeVars, config, sim, distanceCache, lookup>>

CallGenerateReorderings ==
  /\ call' = [fn |-> "generateReorderings", args |-> <<input>>,
              ret |-> generateReorderings(input)]
  /\ UNCHANGED <<routeVars, config, sim, distanceCache, lookup>>

CallCanOptimizeRoute ==
  /\ call' = [fn |-> "canOptimizeRoute", args |-> <<input>>,
              ret |-> canOptimizeRoute(input)]
  /\ UNCHANGED <<routeVars, config, sim, distanceCache, lookup>>

CallCheckScheduleFeasibility ==
  /\ call' = [fn |-> "checkScheduleFeasibility", args |-> <<input>>,
              ret |-> checkScheduleFeasibility(input)]
  /\ UNCHANGED <<routeVars, config, sim, distanceCache, lookup>>

NextUtils ==
  \/ CallDetectConflict
  \/ CallCalculateSmartBuffer
  \/ CallFindAllConflicts
  \/ CallGenerateReorderings
  \/ CallCanOptimizeRoute
  \/ CallCheckScheduleFeasibility

SpecUtils == InitUtils /\ [][NextUtils]_vars

-----------------------------------------------------------------------------
(* simulateReordering on every list of at most MaxReorderList appointments *)

MaxReorderList == 5

\* every row has a start time; dates are labels, so the first row is on date 1
ReorderListInit(maxLen) ==
  \E n \in 0..maxLen : \E f \in [1..n -> [date : Dates, flexibility : Flexibilities]] :
    /\ n > 0 => f[1].date = 1
    /\ input = [i \in 1..n |->
                  MkAppointment(i, [date |-> f[i].date, timed |-> TRUE,
                                    flexibility |-> f[i].flexibility])]

\* maxReorderingScenarios of a simulateReordering call; 50 is the default
ReorderingCaps == {0, 1, 2, 3, 50}

InitReorder ==
  /\ RouteIdle
  /\ sim = NoSim
  /\ call = NoCall
  /\ distanceCache = <<>>
  /\ lookup = NoLookup
  /\ config = DEFAULT_BUFFER_CONFIG
  /\ ReorderListInit(MaxReorderList)

\* simulateReordering 23-109: what it returns, and its counter and the number
\* of orderings built when it returns; log names, for each solution in the
\* order the solutions were pushed, before the sort of 108, the date of its
\* scenario and its feasibility
CallSimulateReordering ==
  /\ \E maxReorderingScenarios \in ReorderingCaps :
       LET run == simulateReorderingRun(input, maxReorderingScenarios)
       IN call' = [fn |-> "simulateReordering",
                   args |-> <<input, maxReorderingScenarios>>,
                   ret |-> run.solutions,
                   scenariosTested |-> run.scenariosTested,
                   generated |-> run.generated,
                   log |-> run.log]
  /\ UNCHANGED <<routeVars, config, sim, distanceCache, lookup>>

NextReorder == CallSimulateReordering

SpecReorder == InitReorder /\ [][NextReorder]_vars

-----------------------------------------------------------------------------
(* simulateBufferVariation on every list of at most MaxBufferList appointments *)

MaxBufferList == 3

\* buffersToTest of a simulateBufferVariation call; the first is the default
BufferLists == {<<30, 35, 40, 45, 50, 55, 60>>, <<50, 30>>, <<60>>, <<>>}

\* baseConfig of a simulateBufferVariation call
BaseConfigs ==
  {DEFAULT_BUFFER_CONFIG, [DEFAULT_BUFFER_CONFIG EXCEPT !.baseBufferMinutes = 30]}

InitBuffer ==
  /\ RouteIdle
  /\ sim = NoSim
  /\ call = NoCall
  /\ distanceCache = <<>>
  /\ lookup = NoLookup
  /\ config \in BaseConfigs
  /\ ListInit(MaxBufferList)

\* simulateBufferVariation 23-61
CallSimulateBufferVariation ==
  /\ \E buffersToTest \in BufferLists :
       call' = [fn |-> "simulateBufferVariation",
                args |-> <<input, buffersToTest, config>>,
                ret |-> simulateBufferVariation(input, buffersToTest, config)]
  /\ UNCHANGED <<routeVars, config, sim, distanceCache, lookup>>

NextBuffer == CallSimulateBufferVariation

SpecBuffer == InitBuffer /\ [][NextBuffer]_vars

-----------------------------------------------------------------------------
(* runConflictSimulations on every list of at most MaxSimList appointments *)

MaxSimList == 3

\* the rows of a crowded morning: on one date each timed row starts before
\* the row ahead of it has ended
SimStartTimeOfRow(i) ==
  CASE i % 4 = 1 -> <<9, 0>> [] i % 4 = 2 -> <<9, 40>>
    [] i % 4 = 3 -> <<9, 50>> [] OTHER -> <<10, 15>>

SimDurationOfRow(i) ==
  CASE i % 4 = 1 -> 60 [] i % 4 = 2 -> 45 [] i % 4 = 3 -> 30 [] OTHER -> 20

SimLatitudeOfRow(i) ==
  CASE i % 4 = 1 -> 3 [] i % 4 = 2 -> 7 [] i % 4 = 3 -> 250 [] OTHER -> 19

SimAppointment(i, f) ==
  [id |-> i, date |-> f.date,
   startTime |-> IF f.timed THEN SimStartTimeOfRow(i) ELSE NoTime,
   flexibility |-> f.flexibility,
   visitDurationMinutes |-> SimDurationOfRow(i),
   latitude |-> SimLatitudeOfRow(i), longitude |-> 151]

\* every row has a start time: only appointments with one can conflict
SimListInit(maxLen) ==
  \E n \in 0..maxLen : \E f \in [1..n -> [date : Dates, flexibility : Flexibilities]] :
    /\ n > 0 => f[1].date = 1
    /\ input = [i \in 1..n |->
                  SimAppointment(i, [date |-> f[i].date, timed |-> TRUE,
                                     flexibility |-> f[i].flexibility])]

\* two dates, the first with a pair that conflicts and the second with a
\* pair that does not: the rows of TwoDayRows, two on each date
TwoDayRows == <<2, 3, 1, 4>>

TwoDayInit ==
  \E f \in [1..Len(TwoDayRows) -> Flexibilities] :
    input = [i \in 1..Len(TwoDayRows) |->
               [SimAppointment(TwoDayRows[i],
                               [date |-> IF 2 * i <= Len(TwoDayRows) THEN 1 ELSE 2,
                                timed |-> TRUE, flexibility |-> f[i]])
                  EXCEPT !.id = i]]

\* DEFAULT_SIMULATION_OPTIONS 290-296 without the time limit
DEFAULT_SIMULATION_OPTIONS ==
  [maxReorderings  |-> 50,
   testBufferSizes |-> <<30, 35, 40, 45, 50, 55, 60>>,
   runRescheduling |-> TRUE,
   config          |-> DEFAULT_BUFFER_CONFIG]

\* the options a caller passes, merged with the defaults
SimulationOptions ==
  {DEFAULT_SIMULATION_OPTIONS,
   [DEFAULT_SIMULATION_OPTIONS EXCEPT !.maxReorderings = 2,
                                      !.testBufferSizes = <<30>>,
                                      !.runRescheduling = FALSE],
   [DEFAULT_SIMULATION_OPTIONS EXCEPT !.maxReorderings = 0,
                                      !.testBufferSizes = <<>>,
                                      !.runRescheduling = FALSE]}

\* the two simulators are handed the same arguments for every conflict of a
\* run, so one that throws does so on every pass: throwing names them
InitSim ==
  /\ RouteIdle
  /\ SimListInit(MaxSimList) \/ TwoDayInit
  /\ config = DEFAULT_BUFFER_CONFIG
  /\ call = NoCall
  /\ distanceCache = <<>>
  /\ lookup = NoLookup
  /\ \E limit \in TimeLimits, options \in SimulationOptions,
        throwing \in SUBSET {"reordering", "buffer"} :
       sim = [pc |-> "start", appointments |-> input, throwing |-> throwing,
              opts |-> [timeLimitMs     |-> limit,
                        maxReorderings  |-> options.maxReorderings,
                        testBufferSizes |-> options.testBufferSizes,
                        runRescheduling |-> options.runRescheduling,
                        config          |-> options.config],
              now |-> 0, startTime |-> 0, conflicts |-> <<>>, next |-> 1,
              resolutions |-> <<>>, merged |-> <<>>, checks |-> <<>>,
              warned |-> FALSE, errors |-> 0]

NextSim ==
  \/ SimStart
  \/ SimIterate
  \/ SimReturn

SpecSim == InitSim /\ [][NextSim]_vars

-----------------------------------------------------------------------------
(* lib/google: the distance cache and the two lookups of distance-matrix.ts *)
(*                                                                         *)
(* A coordinate is a whole number of millionths of a degree.  The service  *)
(* answers a request with an element per destination, or the request fails *)
(* (HTTP or API status not OK, bad format); the API key may be missing.    *)

\* the most destinations of one getDistanceMatrix call
MaxDestinations == 2

\* the {lat, lng} destinations looked up; the first two differ by less than
\* 0.00001 degrees
LatLngs ==
  {[lat |-> 10, lng |-> 20], [lat |-> 14, lng |-> 20], [lat |-> 26, lng |-> 20]}

\* the origins of the lookups
Origins == {[lat |-> 40, lng |-> 20]}

\* Number.prototype.toFixed(5) of a coordinate that is not negative, in
\* hundred-thousandths of a degree
toFixed5(x) == RoundDiv(x, 10)

\* getDistanceCacheKey, client.ts 39-41
getDistanceCacheKey(from, to) ==
  <<toFixed5(from.lat), toFixed5(from.lng), toFixed5(to.lat), toFixed5(to.lng)>>

\* the elements the service can answer with: distance.value in metres and
\* duration.value in seconds, or a status that is not OK
Elements ==
  {[status |-> "OK", distance |-> 1200, duration |-> 210],
   [status |-> "OK", distance |-> 1500, duration |-> 270],
   [status |-> "ZERO_RESULTS"]}

\* DistanceCache.set, cache.ts 36-38
CacheSet(cache, key, value) ==
  [k \in DOMAIN cache \cup {key} |-> IF k = key THEN value ELSE cache[k]]

\* the DistanceResult built from an element whose status is OK
DistanceResultOf(element, from, to) ==
  [distance |-> element.distance,
   duration |-> RoundDiv(element.duration, 60),
   from     |-> from,
   to       |-> to]

\* getDistance 23-72: the rest of the call when the key is not in the cache
getDistanceUncached(cache, from, to, response) ==
  LET cacheKey == getDistanceCacheKey(from, to)
  IN IF response.kind = "no_key"
     THEN [cache |-> cache,
           lookup |-> [fn |-> "getDistance", from |-> from, to |-> <<to>>,
                       fetched |-> FALSE, outcome |-> "throw"]]
     ELSE IF response.kind = "error" \/ response.elements[1].status # "OK"
     THEN [cache |-> cache,
           lookup |-> [fn |-> "getDistance", from |-> from, to |-> <<to>>,
                       fetched |-> TRUE, outcome |-> "throw"]]
     ELSE LET distanceResult == DistanceResultOf(response.elements[1], from, to)
          IN [cache |-> CacheSet(cache, cacheKey, distanceResult),
              lookup |-> [fn |-> "getDistance", from |-> from, to |-> <<to>>,
                          fetched |-> TRUE, outcome |-> "return",
                          ret |-> <<distanceResult>>]]

\* getDistance 11-73: the cache and the record of the call when the service,
\* if it is asked, gives response
getDistance(cache, from, to, response) ==
  LET cacheKey == getDistanceCacheKey(from, to)
  IN IF cacheKey \in DOMAIN cache
     THEN [cache |-> cache,
           lookup |-> [fn |-> "getDistance", from |-> from, to |-> <<to>>,
                       fetched |-> FALSE, outcome |-> "return",
                       ret |-> <<cache[cacheKey]>>]]
     ELSE getDistanceUncached(cache, from, to, response)

RECURSIVE ForEachElement(_, _, _, _, _)
\* elements.forEach of getDistanceMatrix 127-149 from index idx on: the
\* results pushed and the cache after it
ForEachElement(cache, from, chunk, elements, idx) ==
  IF idx > Len(elements) THEN [cache |-> cache, results |-> <<>>]
  ELSE LET destination == chunk[idx]
           element     == elements[idx]
       IN IF element.status = "OK"
          THEN LET distanceResult == DistanceResultOf(element, from, destination)
                   rest == ForEachElement(
                             CacheSet(cache, getDistanceCacheKey(from, destination),
                                      distanceResult),
                             from, chunk, elements, idx + 1)
               IN [rest EXCEPT !.results = <<distanceResult>> \o @]
          ELSE LET rest == ForEachElement(cache, from, chunk, elements, idx + 1)
               IN [rest EXCEPT !.results =
                     <<[distance |-> 999999, duration |-> 9999,
                        from |-> from, to |-> destination]>> \o @]

\* getDistanceMatrix 81-158 for at most 25 destinations, which are one chunk
getDistanceMatrixCall(cache, from, to, response) ==
  IF response.kind = "no_key"
  THEN [cache |-> cache,
        lookup |-> [fn |-> "getDistanceMatrix", from |-> from, to |-> to,
                    fetched |-> FALSE, outcome |-> "throw"]]
  ELSE IF Len(to) = 0
  THEN [cache |-> cache,
        lookup |-> [fn |-> "getDistanceMatrix", from |-> from, to |-> to,
                    fetched |-> FALSE, outcome |-> "return", ret |-> <<>>]]
  ELSE IF response.kind = "error"
  THEN [cache |-> cache,
        lookup |-> [fn |-> "getDistanceMatrix", from |-> from, to |-> to,
                    fetched |-> TRUE, outcome |-> "throw"]]
  ELSE LET done == ForEachElement(cache, from, to, response.elements, 1)
       IN [cache |-> done.cache,
           lookup |-> [fn |-> "getDistanceMatrix", from |-> from, to |-> to,
                       fetched |-> TRUE, outcome |-> "return", ret |-> done.results]]

\* what the service or the environment can do to a request for n destinations
Responses(n) ==
  {[kind |-> "no_key"], [kind |-> "error"]}
    \cup {[kind |-> "elements", elements |-> e] : e \in [1..n -> Elements]}

\* the destinations already in the cache when the call begins
CachedBefore(cache, from, to) ==
  [i \in 1..Len(to) |->
     LET cacheKey == getDistanceCacheKey(from, to[i])
     IN /\ cacheKey \in DOMAIN cache
        /\ cache[cacheKey].from = from
        /\ cache[cacheKey].to = to[i]]

GetDistance ==
  /\ \E from \in Origins, to \in LatLngs, response \in Responses(1) :
       LET after == getDistance(distanceCache, from, to, response)
       IN /\ distanceCache' = after.cache
          /\ lookup' = after.lookup
                         @@ [cachedBefore |-> CachedBefore(distanceCache, from, <<to>>)]
  /\ UNCHANGED <<routeVars, config, call, sim>>

GetDistanceMatrix ==
  /\ \E from \in Origins, n \in 0..MaxDestinations :
       \E to \in [1..n -> LatLngs], response \in Responses(n) :
         LET after == getDistanceMatrixCall(distanceCache, from, to, response)
         IN /\ distanceCache' = after.cache
            /\ lookup' = after.lookup
                           @@ [cachedBefore |-> CachedBefore(distanceCache, from, to)]
  /\ UNCHANGED <<routeVars, config, call, sim>>

\* clearCaches, cache-utils.ts 6-9
ClearCaches ==
  /\ distanceCache' = <<>>
  /\ lookup' = [fn |-> "clearCaches"]
  /\ UNCHANGED <<routeVars, config, call, sim>>

\* the module is loaded: the cache is empty
InitCache ==
  /\ RouteIdle
  /\ input = <<>>
  /\ config = NoConfig
  /\ call = NoCall
  /\ sim = NoSim
  /\ distanceCache = <<>>
  /\ lookup = NoLookup

NextCache ==
  \/ GetDistance
  \/ GetDistanceMatrix
  \/ ClearCaches

SpecCache == InitCache /\ [][NextCache]_vars

-----------------------------------------------------------------------------
(* Claims about the route builder, checked under Spec *)

Returned == pc = "done"
ReturnedRoute == pc = "done" /\ result.success

IdsOf(stops) == [k \in 1..Len(stops) |-> stops[k].appointment.id]

\* C1: in every route returned with success = true, each stop of an
\* inflexible appointment that has a preferred start time arrives within the
\* 15-minute grace period of that time.
ClaimC1 ==
  ReturnedRoute =>
    \A k \in 1..Len(result.stops) :
      LET stop == result.stops[k]
      IN (isInflexible(stop.appointment) /\ stop.appointment.startTime # NoTime)
           => Abs(timeToMinutes(stop.arrivalTime)
                    - timeToMinutes(stop.appointment.startTime))
              <= GRACE_PERIOD_MINUTES

\* C2: whenever optimizeRoute returns success = true, the stops are the input
\* appointments, each in exactly one stop, and no stop holds anything else.
TheoremC2 ==
  ReturnedRoute =>
    /\ Len(result.stops) = Len(input)
    /\ \A i \in 1..Len(input) :
         Cardinality({k \in 1..Len(result.stops) :
                        result.stops[k].appointment = input[i]}) = 1

\* a route over two dates with flexible and inflexible appointments whose
\* order is not the input order
WitnessC2 ==
  /\ ReturnedRoute
  /\ Len(result.stops) = 3
  /\ Len(dates) = 2
  /\ \E i, j \in 1..3 : isInflexible(input[i]) /\ ~isInflexible(input[j])
  /\ IdsOf(result.stops) # <<1, 2, 3>>

\* C3: for consecutive stops of the same date, the later arrival is at least
\* the earlier arrival plus the earlier stop's visit duration.
TheoremC3 ==
  \A k \in 1..(Len(allStops) - 1) :
    allStops[k].appointment.date = allStops[k + 1].appointment.date
      => timeToMinutes(allStops[k + 1].arrivalTime)
           >= timeToMinutes(allStops[k].arrivalTime)
                + allStops[k].appointment.visitDurationMinutes

\* three stops of one date, the last one reached after midnight
WitnessC3 ==
  /\ Len(allStops) = 3
  /\ \A k \in 1..3 : allStops[k].appointment.date = 1
  /\ allStops[2].travelTimeFromPrevious > 0
  /\ timeToMinutes(allStops[3].arrivalTime) >= 24 * 60

\* C4 as claimed: every non-empty set gets a route with stops, conflicts or not.
ClaimC4 ==
  (Returned /\ Len(input) > 0) =>
    (result.success /\ Len(result.stops) = Len(input))

InflexibleShareAtMost80(appointments) ==
  10 * Len(InflexibleOf(appointments)) <= 8 * Len(appointments)

\* C4 as amended: a set without a flexible appointment, or with a feasibility
\* violation while at most 80% of it is inflexible, gets success = false and
\* no stop; every other non-empty set gets one stop per appointment unless a
\* lookup of the arrival-time walk throws, and then no stop either.
TheoremC4 ==
  (Returned /\ Len(input) > 0) =>
    IF \/ Len(FlexibleOf(input)) = 0
       \/ /\ Len(checkScheduleFeasibility(input)) > 0
          /\ InflexibleShareAtMost80(input)
    THEN ~result.success /\ result.stops = <<>> /\ result.error # "lookup_error"
    ELSE IF walkLog # <<>> /\ walkLog[Len(walkLog)] = "throw"
    THEN ~result.success /\ result.stops = <<>> /\ result.error = "lookup_error"
    ELSE result.success /\ Len(result.stops) = Len(input)

\* a set with a flexible appointment and two inflexible ones too close
\* together: no route comes back
WitnessC4 ==
  /\ Returned
  /\ Len(FlexibleOf(input)) > 0
  /\ Len(checkScheduleFeasibility(input)) > 0
  /\ result.stops = <<>>

\* C5: when a lookup throws or returns no result at any step, optimizeRoute
\* still returns the route, that leg taken from the geodesic estimate.
ClaimC5 ==
  (Returned /\ Len(input) > 0 /\ canOptimizeRoute(input).canOptimize) =>
    /\ result.success
    /\ Len(result.stops) = Len(walkLog)
    /\ \A k \in 1..Len(result.stops) :
         walkLog[k] \in {"empty", "throw"} =>
           LET prev == result.stops[k - 1].appointment
               cur == result.stops[k].appointment
               km == haversineDistance(prev.latitude, prev.longitude,
                                       cur.latitude, cur.longitude)
           IN /\ result.stops[k].distanceFromPrevious = km * 1000
              /\ result.stops[k].travelTimeFromPrevious = RoundDiv(km * 12, 10)

-----------------------------------------------------------------------------
(* Claims about the simulation utilities, checked under SpecUtils *)

StartOf(apt) == timeToMinutes(apt.startTime)

\* the appointments of the pair that no appointment of the pair starts before
EarliestOf(a, b) == {x \in {a, b} : StartOf(x) <= StartOf(a) /\ StartOf(x) <= StartOf(b)}

\* C6: for two appointments with start times, detectConflict returns no
\* conflict iff the gap between the starts is at least the earlier one's visit
\* duration; otherwise the pair ordered (earlier, later), the gap, the earlier
\* one's duration as the requirement, and the severity critical for a shortfall
\* above 30, major above 15, else minor.  Without a start time: no conflict.
TheoremC6 ==
  call.fn = "detectConflict" =>
    LET a == call.args[1]
        b == call.args[2]
        r == call.ret
    IN IF a.startTime = NoTime \/ b.startTime = NoTime THEN r = NoConflict
       ELSE LET gap == Abs(StartOf(a) - StartOf(b))
            IN /\ (r = NoConflict) <=>
                    (\E e \in EarliestOf(a, b) : gap >= e.visitDurationMinutes)
               /\ r # NoConflict =>
                    /\ r.appointments[1] \in EarliestOf(a, b)
                    /\ {r.appointments[1], r.appointments[2]} = {a, b}
                    /\ r.gapMinutes = gap
                    /\ r.requiredMinutes = r.appointments[1].visitDurationMinutes
                    /\ r.severity =
                         (IF r.requiredMinutes - gap > 30 THEN "critical"
                          ELSE IF r.requiredMinutes - gap > 15 THEN "major"
                          ELSE "minor")

\* 09:20 against 09:00 for 30 minutes: gap 20, required 30, minor
WitnessC6 ==
  /\ call.fn = "detectConflict"
  /\ call.args[1].startTime = <<9, 20>>
  /\ call.args[1].visitDurationMinutes = 90
  /\ call.args[2].startTime = <<9, 0>>
  /\ call.args[2].visitDurationMinutes = 30
  /\ call.ret # NoConflict
  /\ call.ret.appointments = <<call.args[2], call.args[1]>>
  /\ call.ret.gapMinutes = 20
  /\ call.ret.requiredMinutes = 30
  /\ call.ret.severity = "minor"

\* index pairs i < j of a list whose appointments share a date and conflict
ConflictingPairs(apps) ==
  {ij \in (1..Len(apps)) \X (1..Len(apps)) :
     /\ ij[1] < ij[2]
     /\ apps[ij[1]].date = apps[ij[2]].date
     /\ detectConflict(apps[ij[1]], apps[ij[2]]) # NoConflict}

\* C7: findAllConflicts returns exactly one conflict for every unordered pair
\* of input appointments that share a date and conflict, and nothing else; no
\* returned conflict pairs appointments of different dates.
TheoremC7 ==
  call.fn = "findAllConflicts" =>
    LET apps == call.args[1]
        r == call.ret
    IN /\ Len(r) = Cardinality(ConflictingPairs(apps))
       /\ \A ij \in ConflictingPairs(apps) :
            Cardinality({k \in 1..Len(r) :
                           {r[k].appointments[1], r[k].appointments[2]}
                             = {apps[ij[1]], apps[ij[2]]}}) = 1
       /\ \A k \in 1..Len(r) :
            /\ r[k].appointments[1].date = r[k].appointments[2].date
            /\ r[k] \in {detectConflict(apps[ij[1]], apps[ij[2]]) :
                           ij \in ConflictingPairs(apps)}

\* four appointments, a conflict between two that are not neighbours in the
\* list, and two of different dates whose times would conflict
WitnessC7 ==
  /\ call.fn = "findAllConflicts"
  /\ Len(call.args[1]) = 4
  /\ \E ij \in ConflictingPairs(call.args[1]) : ij[2] > ij[1] + 1
  /\ \E i, j \in 1..4 :
       /\ call.args[1][i].date # call.args[1][j].date
       /\ detectConflict(call.args[1][i], call.args[1][j]) # NoConflict

\* C8: for integer minimumBufferMinutes <= maximumBufferMinutes the result of
\* calculateSmartBuffer lies between the two, bounds included.
TheoremC8 ==
  call.fn = "calculateSmartBuffer" =>
    /\ config.minimumBufferMinutes <= call.ret
    /\ call.ret <= config.maximumBufferMinutes

\* the adjustments alone would leave the range at the top
WitnessC8 ==
  /\ call.fn = "calculateSmartBuffer"
  /\ config # DEFAULT_BUFFER_CONFIG
  /\ config.minimumBufferMinutes < config.maximumBufferMinutes
  /\ UnclampedBuffer100(call.args[1], call.args[2], config)
       > 100 * config.maximumBufferMinutes
  /\ call.ret = config.maximumBufferMinutes

RECURSIVE Factorial(_)
Factorial(n) == IF n <= 1 THEN 1 ELSE n * Factorial(n - 1)

\* C9: with k flexible and m >= 1 inflexible appointments generateReorderings
\* returns k! pairwise distinct orderings, each a permutation of the input
\* with every inflexible appointment at its input index; with k = 0 or m = 0
\* it returns the input as the only ordering.
TheoremC9 ==
  call.fn = "generateReorderings" =>
    LET apps == call.args[1]
        r == call.ret
        k == Len(FlexibleOf(apps))
        m == Len(InflexibleOf(apps))
    IN IF k = 0 \/ m = 0 THEN r = <<apps>>
       ELSE /\ Len(r) = Factorial(k)
            /\ \A p, q \in 1..Len(r) : p # q => r[p] # r[q]
            /\ \A p \in 1..Len(r) :
                 /\ Len(r[p]) = Len(apps)
                 /\ \A i \in 1..Len(apps) :
                      Cardinality({n \in 1..Len(apps) : r[p][n] = apps[i]}) = 1
                 /\ \A i \in 1..Len(apps) :
                      isInflexible(apps[i]) => r[p][i] = apps[i]

\* three flexible appointments around one inflexible: six orderings
WitnessC9 ==
  /\ call.fn = "generateReorderings"
  /\ Len(FlexibleOf(call.args[1])) = 3
  /\ isInflexible(call.args[1][2])
  /\ Len(call.ret) = 6

-----------------------------------------------------------------------------
(* Claims about the orchestrator, checked under SpecSim *)

ConflictsOf(resolutions) == [k \in 1..Len(resolutions) |-> resolutions[k].conflict]

\* a check of the budget that read this elapsed time found it exceeded
OverBudget(elapsed) ==
  sim.opts.timeLimitMs # Undefined /\ elapsed > sim.opts.timeLimitMs[1]

\* C10: runConflictSimulations returns the empty list when there is no
\* conflict; otherwise the conflicts of the resolutions are a prefix, in order,
\* of findAllConflicts: the budget is checked once before each conflict, every
\* reported conflict follows a check within the budget, and the first check
\* over the budget ends the list.
TheoremC10 ==
  sim.pc = "returned" =>
    LET all == findAllConflicts(input)
        n == Len(sim.resolutions)
    IN /\ all = <<>> => sim.resolutions = <<>> /\ sim.checks = <<>>
       /\ n <= Len(all)
       /\ ConflictsOf(sim.resolutions) = SubSeq(all, 1, n)
       /\ \A k \in 1..n : ~OverBudget(sim.checks[k])
       /\ IF n < Len(all)
          THEN Len(sim.checks) = n + 1 /\ OverBudget(sim.checks[n + 1])
          ELSE Len(sim.checks) = n

\* three conflicts, the budget runs out before the second
WitnessC10 ==
  /\ sim.pc = "returned"
  /\ Len(findAllConflicts(input)) = 3
  /\ Len(sim.resolutions) = 1
  /\ sim.warned
  /\ sim.errors > 0

-----------------------------------------------------------------------------
(* Claims about the solutions of a resolution, checked under SpecSim *)

SimReturned == sim.pc = "returned"

\* the computed impact score the ranking compares
ScoreOf(solution) == calculateImpactScore(solution, DEFAULT_BUFFER_CONFIG)

\* C11: in every resolution that runConflictSimulations returns the
\* recommended solution is the first of the ranked solutions, its computed
\* impact score is minimal among the merged solutions, and the recommendation
\* is none exactly when the merged list is empty.
TheoremC11 ==
  SimReturned =>
    \A k \in 1..Len(sim.resolutions) :
      LET resolution == sim.resolutions[k]
          merged     == sim.merged[k]
      IN /\ resolution.recommendedSolution = Null <=> merged = <<>>
         /\ merged # <<>> =>
              /\ resolution.recommendedSolution = <<resolution.solutions[1]>>
              /\ \A j \in 1..Len(merged) :
                   ScoreOf(resolution.solutions[1]) <= ScoreOf(merged[j])

\* a resolution whose merged list does not begin with its best solution
WitnessC11 ==
  /\ SimReturned
  /\ \E k \in 1..Len(sim.resolutions) :
       /\ Len(sim.merged[k]) > 1
       /\ sim.resolutions[k].recommendedSolution # Null
       /\ ScoreOf(sim.merged[k][1]) > ScoreOf(sim.resolutions[k].recommendedSolution[1])

\* C12: a resolution of a conflict for which no simulator produced a solution
\* tagged feasible recommends none, whatever the options.
ClaimC12 ==
  SimReturned =>
    \A k \in 1..Len(sim.resolutions) :
      (\A j \in 1..Len(sim.merged[k]) : sim.merged[k][j].feasibility # "feasible")
        => sim.resolutions[k].recommendedSolution = Null

-----------------------------------------------------------------------------
(* Claims about the utilities, checked under SpecUtils and SpecReorder *)

\* C13: canOptimizeRoute answers canOptimize = false for every list without a
\* flexible appointment, whatever the dates, start times, durations and
\* coordinates are.
TheoremC13 ==
  (call # NoCall /\ call.fn = "canOptimizeRoute") =>
    (Len(FlexibleOf(call.args[1])) = 0 => ~call.ret.canOptimize)

\* three inflexible appointments whose schedule has no feasibility error
WitnessC13 ==
  /\ call # NoCall
  /\ call.fn = "canOptimizeRoute"
  /\ Len(call.args[1]) = 3
  /\ Len(FlexibleOf(call.args[1])) = 0
  /\ checkScheduleFeasibility(call.args[1]) = <<>>
  /\ ~call.ret.canOptimize

\* C14: for every solution of a result of runConflictSimulations, the impact
\* score recomputed by the formula from the solution's changes, success rate
\* and statistics is the impact score the solution stores.
ClaimC14 ==
  SimReturned =>
    \A k \in 1..Len(sim.resolutions) :
      \A j \in 1..Len(sim.resolutions[k].solutions) :
        LET solution == sim.resolutions[k].solutions[j]
        IN ScoreOf(solution) = solution.impactScore

\* the number of times x occurs in the list s
Occurrences(s, x) == Cardinality({k \in 1..Len(s) : s[k] = x})

IsPermutationOf(s, t) ==
  /\ Len(s) = Len(t)
  /\ \A k \in 1..Len(t) : Occurrences(s, t[k]) = Occurrences(t, t[k])

NonDecreasingScores(s) ==
  \A k \in 1..(Len(s) - 1) : ScoreOf(s[k]) <= ScoreOf(s[k + 1])

\* C15: the solutions of every resolution are a permutation of the merged
\* list that rankSolutions was handed (no solution added, dropped or altered)
\* in which the impact score computed by calculateImpactScore does not
\* decrease from first to last.
TheoremC15 ==
  SimReturned =>
    \A k \in 1..Len(sim.resolutions) :
      /\ IsPermutationOf(sim.resolutions[k].solutions, sim.merged[k])
      /\ NonDecreasingScores(sim.resolutions[k].solutions)

\* a merged list of three different scores that is not in order
WitnessC15 ==
  /\ SimReturned
  /\ \E k \in 1..Len(sim.resolutions) :
       /\ ~NonDecreasingScores(sim.merged[k])
       /\ Cardinality({ScoreOf(sim.merged[k][j]) : j \in 1..Len(sim.merged[k])}) >= 3
       /\ sim.resolutions[k].solutions # sim.merged[k]

\* C16: every change of every solution that a simulator produced has
\* impactMinutes >= 0; the impact of a buffer-adjust change is a shortfall
\* that is not negative.
ClaimC16 ==
  SimReturned =>
    \A k \in 1..Len(sim.resolutions) :
      \A j \in 1..Len(sim.resolutions[k].solutions) :
        \A c \in 1..Len(sim.resolutions[k].solutions[j].changes) :
          sim.resolutions[k].solutions[j].changes[c].impactMinutes >= 0

-----------------------------------------------------------------------------
(* Claims about the distance cache, checked under SpecCache *)

\* C17: the distance cache is read-through: a lookup, through getDistance or
\* through getDistanceMatrix, of coordinate pairs whose results are all in
\* the cache when it begins is answered without a call of the service.
ClaimC17 ==
  (lookup.fn \in {"getDistance", "getDistanceMatrix"}
     /\ Len(lookup.to) > 0
     /\ \A i \in 1..Len(lookup.to) : lookup.cachedBefore[i])
    => ~lookup.fetched

\* the reference computation of the smart buffer, in hundredths of a minute
\* before the rounding: base, times the flexible factor when both are
\* flexible, times 1.2 or 0.9 by the average duration, plus 15 beyond 10 km,
\* clamped
ReferenceBuffer100(a, b, cfg) ==
  LET base   == cfg.baseBufferMinutes * 100
      flexed == IF a.flexibility = "flexible" /\ b.flexibility = "flexible"
                THEN (base * cfg.flexibleFactorTenths) \div 10 ELSE base
      total  == a.visitDurationMinutes + b.visitDurationMinutes
      scaled == IF total > 120 THEN (flexed * 12) \div 10
                ELSE IF total < 60 THEN (flexed * 9) \div 10
                ELSE flexed
      far    == haversineDistance(a.latitude, a.longitude, b.latitude, b.longitude) > 10
      moved  == IF far THEN scaled + 1500 ELSE scaled
  IN Max(cfg.minimumBufferMinutes * 100, Min(cfg.maximumBufferMinutes * 100, moved))

\* C18: calculateSmartBuffer(a, b, config) is the reference computation: the
\* base buffer, times flexibleFactor iff both are flexible, times 1.2 above an
\* average duration of 60 or 0.9 below 30, plus 15 whenever the two locations
\* are more than 10 km apart, clamped to the configured range and rounded.
ClaimC18 ==
  (call # NoCall /\ call.fn = "calculateSmartBuffer") =>
    call.ret = RoundDiv(ReferenceBuffer100(call.args[1], call.args[2], config), 100)

\* the dates of a list on which simulateReordering tests orderings
ReorderedDates(appointments) ==
  {d \in Dates :
     /\ Len(OnDate(appointments, d)) >= 2
     /\ Len(FlexibleOf(OnDate(appointments, d))) > 0}

\* the orderings of the list's date d
OrderingsOn(appointments, d) == Len(generateReorderings(OnDate(appointments, d)))

RECURSIVE SumOrderings(_, _)
SumOrderings(appointments, ds) ==
  IF ds = {} THEN 0
  ELSE LET d == CHOOSE x \in ds : TRUE
       IN OrderingsOn(appointments, d) + SumOrderings(appointments, ds \ {d})

\* C19: simulateReordering keeps one scenario counter for all dates: the
\* scenarios tested over all dates are never more than maxReorderingScenarios,
\* testing stops when the counter reaches the cap, also in the middle of a
\* date, and there is one returned solution per tested scenario.
TheoremC19 ==
  (call # NoCall /\ call.fn = "simulateReordering") =>
    LET available == SumOrderings(call.args[1], ReorderedDates(call.args[1]))
    IN /\ call.scenariosTested <= call.args[2]
       /\ call.scenariosTested = Min(call.args[2], available)
       /\ Len(call.ret) = call.scenariosTested
       /\ \A k \in 1..Len(call.ret) :
            call.ret[k].statistics.totalScenariosTested = call.scenariosTested

\* a cap of two that is reached inside the second date: the first date has
\* one ordering, the second has two
WitnessC19 ==
  /\ call # NoCall
  /\ call.fn = "simulateReordering"
  /\ call.args[2] = 2
  /\ ReorderedDates(call.args[1]) = {1, 2}
  /\ OrderingsOn(call.args[1], 1) = 1
  /\ OrderingsOn(call.args[1], 2) = 2
  /\ Len(call.ret) = 2

\* C20: during one simulateReordering call the number of candidate orderings
\* that are generated is never more than maxReorderingScenarios: generation
\* stops at the cap, the orderings are not all built and then truncated.
ClaimC20 ==
  (call # NoCall /\ call.fn = "simulateReordering") =>
    call.generated <= call.args[2]

\* the scenarios the last simulateReordering call tested on a date
ScenariosOn(date) == {n \in 1..Len(call.log) : call.log[n].date = date}

\* C21: on every date simulateReordering reorders (two or more appointments,
\* k >= 1 of them flexible, dates with flexible appointments only included),
\* as long as the cap on scenarios is not reached, exactly k! scenarios are
\* tested for that date
ClaimC21 ==
  (call.fn = "simulateReordering" /\ call.scenariosTested < call.args[2])
    => \A date \in ReorderedDates(call.args[1]) :
         Cardinality(ScenariosOn(date)) =
           Factorial(Len(FlexibleOf(OnDate(call.args[1], date))))

-----------------------------------------------------------------------------
(* Claims about simulateBufferVariation, checked under SpecBuffer *)

\* the solution createBufferSolution built for a candidate carries the
\* candidate as statistics.bestScenarioGapMinutes (165)
CandidateOf(solution) == solution.statistics.bestScenarioGapMinutes

\* no two timed appointments of one date start closer to each other than the
\* smart buffer of the pair, earlier appointment first, under cfg
ConflictFreeUnder(appointments, cfg) ==
  \A i, j \in 1..Len(appointments) :
    LET a == appointments[i]
        b == appointments[j]
    IN (/\ i # j /\ a.date = b.date
        /\ a.startTime # NoTime /\ b.startTime # NoTime
        /\ timeToMinutes(a.startTime) <= timeToMinutes(b.startTime))
       => timeToMinutes(b.startTime) - timeToMinutes(a.startTime)
            >= calculateSmartBuffer(a, b, cfg)

\* C22: simulateBufferVariation returns one solution for each candidate base
\* buffer, and the solution of a candidate is tagged feasible exactly when,
\* with that candidate as base buffer, no two timed appointments of one date
\* anywhere in the schedule are closer than their smart buffer
ClaimC22 ==
  call.fn = "simulateBufferVariation"
    => /\ Len(call.ret) = Len(call.args[2])
       /\ \A k \in 1..Len(call.args[2]) :
            /\ Cardinality({n \in 1..Len(call.ret) :
                              CandidateOf(call.ret[n]) = call.args[2][k]}) = 1
            /\ \A n \in 1..Len(call.ret) :
                 CandidateOf(call.ret[n]) = call.args[2][k]
                   => (call.ret[n].feasibility = "feasible"
                        <=> ConflictFreeUnder(call.args[1],
                              [call.args[3] EXCEPT !.baseBufferMinutes = call.args[2][k]]))

\* C23: in the list simulateBufferVariation returns, of two solutions with
\* equal changes and equal success rate the one whose candidate is closer to
\* the base buffer of the configuration comes no later than the other
ClaimC23 ==
  call.fn = "simulateBufferVariation"
    => \A m, n \in 1..Len(call.ret) :
         (/\ Abs(CandidateOf(call.ret[m]) - call.args[3].baseBufferMinutes)
               < Abs(CandidateOf(call.ret[n]) - call.args[3].baseBufferMinutes)
          /\ call.ret[m].changes = call.ret[n].changes
          /\ call.ret[m].successRate = call.ret[n].successRate)
           => m <= n

-----------------------------------------------------------------------------
(* Claims about the solutions of a run, checked under SpecSim *)

\* the solution of the first rescheduling heuristic: one change of type
\* reschedule, stored impact score 40
IsLaterInDay(solution) ==
  /\ Len(solution.changes) = 1
  /\ solution.changes[1].type = "reschedule"
  /\ solution.impactScore = 4000

\* C24: for a conflict (earlier, later) the first rescheduling heuristic
\* proposes for the later appointment the time earlier.start +
\* earlier.visitDuration + calculateSmartBuffer(earlier, later), which is
\* later than the later appointment's original start time
ClaimC24 ==
  sim.pc # "idle"
    => \A k \in 1..Len(sim.resolutions) :
         LET earlier == sim.resolutions[k].conflict.appointments[1]
             later   == sim.resolutions[k].conflict.appointments[2]
         IN \A n \in 1..Len(sim.resolutions[k].solutions) :
              LET solution == sim.resolutions[k].solutions[n]
              IN IsLaterInDay(solution)
                   => /\ solution.changes[1].appointmentId = later.id
                      /\ timeToMinutes(solution.changes[1].proposedTime)
                           = timeToMinutes(earlier.startTime)
                             + earlier.visitDurationMinutes
                             + calculateSmartBuffer(earlier, later, sim.opts.config)
                      /\ timeToMinutes(solution.changes[1].proposedTime)
                           > timeToMinutes(later.startTime)

\* C25: for every solution a simulator produced, calculateDisruptionScore is
\* between 0 and 100 (0 and 1000 tenths), and 0 when the solution has no
\* changes
ClaimC25 ==
  sim.pc # "idle"
    => \A k \in 1..Len(sim.merged) :
         \A n \in 1..Len(sim.merged[k]) :
           /\ calculateDisruptionScore(sim.merged[k][n]) >= 0
           /\ calculateDisruptionScore(sim.merged[k][n]) <= 1000
           /\ Len(sim.merged[k][n].changes) = 0
                => calculateDisruptionScore(sim.merged[k][n]) = 0

-----------------------------------------------------------------------------
(* Claims about the anchors of a day's order, checked under Spec *)

\* of two inflexible appointments of one date in the list s, the one with
\* the earlier start time comes first
AnchorsAscending(s) ==
  \A i, j \in 1..Len(s) :
    (/\ isInflexible(s[i]) /\ isInflexible(s[j])
     /\ s[i].date = s[j].date
     /\ s[i].startTime # NoTime /\ s[j].startTime # NoTime
     /\ timeToMinutes(s[i].startTime) < timeToMinutes(s[j].startTime))
      => i < j

\* C26: in the visiting order built for a date, while flexible appointments
\* are inserted and in the stops of the walk, an inflexible appointment with
\* an earlier start time precedes every inflexible appointment with a later
\* one
ClaimC26 ==
  /\ AnchorsAscending(ordered)
  /\ AnchorsAscending([k \in 1..Len(allStops) |-> allStops[k].appointment])

\* C27: optimizeRoute never returns success = true for a list for which
\* checkScheduleFeasibility reports a violation, whatever the share of
\* inflexible appointments in the list is: canOptimizeRoute answers
\* canOptimize = false for it
ClaimC27 ==
  (Returned /\ Len(checkScheduleFeasibility(input)) > 0)
    => /\ ~canOptimizeRoute(input).canOptimize
       /\ ~result.success

\* C28: in every result of runConflictSimulations, a resolution whose
\* solutions hold a solution tagged feasible recommends a solution tagged
\* feasible
ClaimC28 ==
  SimReturned =>
    \A k \in 1..Len(sim.resolutions) :
      (\E n \in 1..Len(sim.resolutions[k].solutions) :
         sim.resolutions[k].solutions[n].feasibility = "feasible")
        => /\ sim.resolutions[k].recommendedSolution # Null
           /\ sim.resolutions[k].recommendedSolution[1].feasibility = "feasible"

-----------------------------------------------------------------------------
(* Claims about the scenarios of a date, checked under SpecReorder *)

\* C29: the scenarios simulateReordering tests for one date all get the same
\* feasibility tag, and the tag is feasible exactly when the appointments of
\* the date, in the order they were given, have no conflict under
\* findAllConflicts
TheoremC29 ==
  call.fn = "simulateReordering"
    => /\ Len(call.log) = Len(call.ret)
       /\ \A n \in 1..Len(call.log) :
            call.log[n].feasibility
              = IF Len(findAllConflicts(OnDate(call.args[1], call.log[n].date))) = 0
                THEN "feasible" ELSE "infeasible"

\* a date with a conflict on which two orderings were tested, both
\* infeasible, beside a date without conflict whose ordering is feasible
WitnessC29 ==
  /\ call.fn = "simulateReordering"
  /\ \E p, q \in Dates :
       /\ Cardinality(ScenariosOn(p)) = 2
       /\ \A n \in ScenariosOn(p) : call.log[n].feasibility = "infeasible"
       /\ Cardinality(ScenariosOn(q)) >= 1
       /\ \A n \in ScenariosOn(q) : call.log[n].feasibility = "feasible"
  /\ \E m, n \in 1..Len(call.ret) :
       /\ call.ret[m].feasibility = "infeasible"
       /\ call.ret[n].feasibility = "infeasible"
       /\ call.ret[m].changes # call.ret[n].changes

-----------------------------------------------------------------------------
(* Claims about checkScheduleFeasibility, checked under SpecUtils *)

\* C30: whenever two inflexible appointments of one date, both with a start
\* time, are in conflict under detectConflict, checkScheduleFeasibility
\* returns at least one violation for that date, also when other inflexible
\* appointments of the date have no start time
ClaimC30 ==
  call.fn = "checkScheduleFeasibility"
    => \A i, j \in 1..Len(call.args[1]) :
         LET a == call.args[1][i]
             b == call.args[1][j]
         IN (/\ i < j /\ a.date = b.date
             /\ isInflexible(a) /\ isInflexible(b)
             /\ detectConflict(a, b) # NoConflict)
            => \E n \in 1..Len(call.ret) : call.ret[n].date = a.date

====
